---------------------------- MODULE Spec2Model ----------------------------
(***************************************************************************)
(* A model of the imajin simulation engine (LEB-EPFL/imajin):              *)
(*   - the StateMachine of leb/imajin/samples/_state_machine.py,           *)
(*   - the Fluorophore / Emitters sample of leb/imajin/samples/_samples.py,*)
(*   - the SimpleMicroscope of leb/imajin/optics/_optics.py,               *)
(*   - the SimpleCMOSCamera of leb/imajin/detectors/_detectors.py,         *)
(*   - the UniformMono2D source of leb/imajin/sources/_sources.py,         *)
(*   - the Simulator driver of leb/imajin/simulators/_simulators.py.       *)
(*                                                                         *)
(* Specifications: SpecSM and SpecCalls (a StateMachine and its collect    *)
(* calls), SpecRates (compute_rates_cached and its cache), Spec (one       *)
(* Simulator), SpecPair (two Simulators with one seed), SpecPool (an       *)
(* Emitters sample evaluated by an executor), SpecOptics (one              *)
(* SimpleMicroscope), SpecDetector (one SimpleCMOSCamera), SpecSource (one *)
(* UniformMono2D).                                                         *)
(*                                                                         *)
(* Time is counted in integer ticks, TicksPerUnit ticks to one unit of     *)
(* time.  A Python float is modelled as an integer number of ticks that    *)
(* keeps FloatBits significant bits (round to nearest, ties to even), so   *)
(* that float addition rounds as IEEE-754 addition does.  A numpy          *)
(* Generator is modelled as a deterministic generator whose whole state is *)
(* one integer: a draw is a function of the state and advances it.         *)
(***************************************************************************)
EXTENDS Integers, Sequences, FiniteSets, TLC

VARIABLES
    sm,         \* the StateMachine object of the state-machine specification
    smRng,      \* the state of the Generator that StateMachine draws from
    smEvents,   \* the list returned by the last collect call
    smCalls,    \* number of collect calls made so far
    smCall,     \* the last collect call: its arguments and the machine before it
    world,          \* the Simulator, its snapshot and the objects they refer to
    construction,   \* the state of the Simulator when it was constructed
    hist,           \* the calls made on the Simulator so far, with their results
    lastCall,       \* the last call made on the Simulator, with its events
    before,         \* the world before the last call
    simA,       \* the first of two Simulators built from one configuration
    simB,       \* the second of them, built with the same seed
    stacksA,    \* the frame stacks returned by the runs of simA
    stacksB,    \* the frame stacks returned by the runs of simB
    scope,      \* a SimpleMicroscope with the arguments of its last response call
    scopeOut,   \* what that call returned or raised
    camera,     \* a SimpleCMOSCamera with the arguments of its last response call
    cameraOut,  \* what that call returned or raised
    laser,      \* a UniformMono2D, or what its construction raised
    pool,       \* an Emitters sample whose response an executor is evaluating
    memo        \* the cache of compute_rates_cached and its last call

smVars == <<sm, smRng, smEvents, smCalls, smCall>>

simVars == <<world, construction, hist, lastCall, before>>

pairVars == <<simA, simB, stacksA, stacksB>>

benchVars == <<scope, scopeOut, camera, cameraOut, laser, pool, memo>>

vars == <<sm, smRng, smEvents, smCalls, smCall, world, construction, hist, lastCall, before,
          simA, simB, stacksA, stacksB, scope, scopeOut, camera, cameraOut,
          laser, pool, memo>>

\* the variables of a specification that is not the one being run
NoStateMachine ==
    sm = 0 /\ smRng = 0 /\ smEvents = << >> /\ smCalls = 0 /\ smCall = 0
NoSimulator ==
    world = 0 /\ construction = 0 /\ hist = << >> /\ lastCall = 0 /\ before = 0
NoPair == simA = 0 /\ simB = 0 /\ stacksA = << >> /\ stacksB = << >>
NoOptics == scope = 0 /\ scopeOut = 0
NoDetector == camera = 0 /\ cameraOut = 0
NoSource == laser = 0
NoPool == pool = 0
NoMemo == memo = 0

---------------------------------------------------------------------------
(* Bounds of the model *)

FloatBits == 6        \* significant bits kept by a modelled float
TicksPerUnit == 6     \* ticks in one unit of time
RngMod == 16          \* number of states of a modelled Generator
MaxCollects == 3      \* collect calls per behaviour of SpecSM
MaxCalls == 3         \* calls on a Simulator per behaviour of Spec and SpecPair
MaxMeasurements == 2  \* largest num_measurements of a Simulator
MaxRecorded == 2      \* collect calls per behaviour of SpecCalls
MaxPhotons == 8       \* largest photon count of an emitter response in SpecOptics
MaxExposures == 2     \* response calls per behaviour of SpecDetector
MaxAssignments == 2   \* assignments per behaviour of SpecSource
MaxDispatches == 2    \* response calls with an executor per behaviour of SpecPool
CACHE_SIZE_SM_RATES == 2  \* entries the cache of compute_rates_cached holds

(* numpy.inf: larger than every finite time of the model *)
Inf == 1000000

---------------------------------------------------------------------------
(* Floating-point arithmetic *)

RECURSIVE Pow2(_)
Pow2(n) == IF n = 0 THEN 1 ELSE 2 * Pow2(n - 1)

Abs(x) == IF x < 0 THEN -x ELSE x

RECURSIVE Ulp(_, _)
\* the spacing of the floats around the magnitude x
Ulp(x, u) == IF x < Pow2(FloatBits) * u THEN u ELSE Ulp(x, 2 * u)

\* round to nearest float, ties to the even significand
FRoundMag(x) ==
    LET u == Ulp(x, 1)
        q == x \div u
        r == x % u
    IN  IF 2 * r < u THEN q * u
        ELSE IF 2 * r > u THEN (q + 1) * u
        ELSE IF q % 2 = 0 THEN q * u ELSE (q + 1) * u

FRound(x) == IF x < 0 THEN -FRoundMag(-x) ELSE FRoundMag(x)

\* a + b on floats
FAdd(a, b) == IF a = Inf \/ b = Inf THEN Inf ELSE FRound(a + b)

\* a * b on floats
FMul(a, b) == IF a = Inf \/ b = Inf THEN Inf ELSE FRound(a * b)

---------------------------------------------------------------------------
(* numpy.random.Generator *)

RngNext(s) == (5 * s + 3) % RngMod

RECURSIVE RngSkip(_, _)
RngSkip(s, n) == IF n = 0 THEN s ELSE RngSkip(RngNext(s), n - 1)

\* the raw sample a generator in state s delivers
RngRaw(s) == (s \div 4) % 4

\* a standard exponential sample, in units of the scale
StdExponential(s) == 1 + (RngRaw(s) % 2)

\* Generator.exponential(scale) for a vector of scales indexed 0..n-1: one draw
\* per element, in index order; an infinite scale gives an infinite sample
Exponential(s, scale) ==
    [t \in DOMAIN scale |->
        IF scale[t] = Inf THEN Inf ELSE scale[t] * StdExponential(RngSkip(s, t))]

---------------------------------------------------------------------------
(* StateMachine: rates and stopped states *)

\* a nested tuple as a 0-indexed matrix
Matrix(rows) ==
    [i \in 0 .. Len(rows) - 1 |->
        [j \in 0 .. Len(rows[i + 1]) - 1 |-> rows[i + 1][j + 1]]]

\* a tuple as a 0-indexed vector
Vector(xs) == [i \in 0 .. Len(xs) - 1 |-> xs[i + 1]]

Card(f) == Cardinality(DOMAIN f)

RECURSIVE Power(_, _)
Power(b, e) == IF e = 0 THEN 1 ELSE b * Power(b, e - 1)

RECURSIVE SumTo(_, _)
\* f[0] + ... + f[n-1]
SumTo(f, n) == IF n = 0 THEN 0 ELSE SumTo(f, n - 1) + f[n - 1]

\* compute_rates_cached: rate_constants + tensordot(powers, rate_coefficients)
compute_rates(control_params, rate_constants, rate_coefficients) ==
    IF Card(rate_coefficients) = 0
    THEN rate_constants
    ELSE [i \in DOMAIN rate_constants |->
            [j \in DOMAIN rate_constants[i] |->
                rate_constants[i][j]
                + SumTo([l \in DOMAIN rate_coefficients |->
                            SumTo([m \in DOMAIN rate_coefficients[l] |->
                                      Power(control_params[l], m + 1)
                                      * rate_coefficients[l][m][i][j]],
                                  Card(rate_coefficients[l]))],
                        Card(rate_coefficients))]]

\* the body of compute_rates_cached: it raises ValueError when there are rate
\* coefficients and the control parameters do not number as many as their
\* first dimension
compute_rates_body(control_params, rate_constants, rate_coefficients) ==
    IF Card(rate_coefficients) # 0 /\ Card(control_params) # Card(rate_coefficients)
    THEN [raised |-> TRUE, value |-> rate_constants]
    ELSE [raised |-> FALSE,
          value |-> compute_rates(control_params, rate_constants, rate_coefficients)]

\* a cache that tells its entries apart by the control parameters alone
key_of_control_params(control_params, rate_constants, rate_coefficients) ==
    <<control_params>>

\* what lru_cache tells the entries of compute_rates_cached apart by: the three
\* tuples it is called with
cache_key(control_params, rate_constants, rate_coefficients) ==
    <<control_params, rate_constants, rate_coefficients>>

\* the position of key k in the cache, 0 when it holds no entry for k
Lookup(cache, k) ==
    IF \E n \in 1 .. Len(cache) : cache[n].key = k
    THEN CHOOSE n \in 1 .. Len(cache) : cache[n].key = k
    ELSE 0

\* cache without its entry at position n
Without(cache, n) ==
    [k \in 1 .. Len(cache) - 1 |-> IF k < n THEN cache[k] ELSE cache[k + 1]]

\* @lru_cache(maxsize=CACHE_SIZE_SM_RATES) around compute_rates_cached; cache is
\* the list of entries, the most recently used first
lru_cache(cache, control_params, rate_constants, rate_coefficients) ==
    LET k == cache_key(control_params, rate_constants, rate_coefficients)
        n == Lookup(cache, k)
    IN  IF n # 0
        THEN [cache |-> <<cache[n]>> \o Without(cache, n), hit |-> TRUE,
              raised |-> FALSE, result |-> cache[n].value]
        ELSE LET body == compute_rates_body(control_params, rate_constants,
                                            rate_coefficients)
                 filled == <<[key |-> k, value |-> body.value]>> \o cache
             IN  IF body.raised
                 THEN [cache |-> cache, hit |-> FALSE, raised |-> TRUE,
                       result |-> body.value]
                 ELSE [cache |-> IF Len(filled) > CACHE_SIZE_SM_RATES
                                 THEN SubSeq(filled, 1, CACHE_SIZE_SM_RATES)
                                 ELSE filled,
                       hit |-> FALSE, raised |-> FALSE, result |-> body.value]

\* stopped_states_cached with rows and columns confused: the states whose
\* incoming column is zero
stopped_states_by_column(rate_constants, rate_coefficients) ==
    {x \in DOMAIN rate_constants :
        /\ \A l \in DOMAIN rate_coefficients :
             \A m \in DOMAIN rate_coefficients[l] :
               \A i \in DOMAIN rate_coefficients[l][m] :
                 rate_coefficients[l][m][i][x] = 0
        /\ \A i \in DOMAIN rate_constants : rate_constants[i][x] = 0}

\* stopped_states_cached: the states whose outgoing row is zero in the rate
\* constants and in every slice of the rate coefficients
stopped_states(rate_constants, rate_coefficients) ==
    {x \in DOMAIN rate_constants :
        /\ \A l \in DOMAIN rate_coefficients :
             \A m \in DOMAIN rate_coefficients[l] :
               \A j \in DOMAIN rate_coefficients[l][m][x] :
                 rate_coefficients[l][m][x][j] = 0
        /\ \A j \in DOMAIN rate_constants[x] : rate_constants[x][j] = 0}

\* numpy.reciprocal(rates, out=inf, where=rates > 0), in ticks
Reciprocal(rates) ==
    [t \in DOMAIN rates |-> IF rates[t] > 0 THEN TicksPerUnit \div rates[t] ELSE Inf]

\* numpy.min
Min(times) == CHOOSE v \in {times[t] : t \in DOMAIN times} :
                 \A t \in DOMAIN times : v <= times[t]

\* numpy.argmin: the lowest index attaining the minimum
ArgMin(times) == CHOOSE t \in DOMAIN times :
                    /\ times[t] = Min(times)
                    /\ \A u \in DOMAIN times : times[u] = Min(times) => t <= u

Event(time, from_state, to_state) ==
    [time |-> time, from_state |-> from_state, to_state |-> to_state]

---------------------------------------------------------------------------
(* StateMachine: the object and its methods.  A method takes the object m *)
(* and the state s of its Generator and returns both as they are left.    *)

\* F(v), with v computed once however often F uses it
With(v, F(_)) == CHOOSE r \in {F(x) : x \in {v}} : TRUE

\* self._next_event = self._compute_next_event(...)
set_next_event(c) == [sm |-> [c.sm EXCEPT !.next_event = c.event], rng |-> c.rng]

\* StateMachine._compute_next_event that does not raise the stopped flag
_compute_next_event_flag_unset(m, s, control_params, t_offset) ==
    IF m.current_state \in stopped_states(m.rate_constants, m.rate_coefficients)
    THEN [sm |-> m,
          rng |-> s,
          event |-> Event(Inf, m.current_state, m.current_state)]
    ELSE LET rates == compute_rates(control_params, m.rate_constants,
                                    m.rate_coefficients)[m.current_state]
             transition_times == Exponential(s, Reciprocal(rates))
         IN  [sm |-> m,
              rng |-> RngSkip(s, Card(rates)),
              event |-> Event(FAdd(Min(transition_times), t_offset),
                              m.current_state,
                              ArgMin(transition_times))]

\* StateMachine._compute_next_event
_compute_next_event(m, s, control_params, t_offset) ==
    IF m.current_state \in stopped_states(m.rate_constants, m.rate_coefficients)
    THEN [sm |-> [m EXCEPT !.stopped = TRUE],
          rng |-> s,
          event |-> Event(Inf, m.current_state, m.current_state)]
    ELSE LET rates == compute_rates(control_params, m.rate_constants,
                                    m.rate_coefficients)[m.current_state]
             transition_times == Exponential(s, Reciprocal(rates))
         IN  [sm |-> m,
              rng |-> RngSkip(s, Card(rates)),
              event |-> Event(FAdd(Min(transition_times), t_offset),
                              m.current_state,
                              ArgMin(transition_times))]

\* StateMachine.__post_init__ (the control parameters have one entry per
\* control parameter of rate_coefficients, or construction fails)
StateMachine(current_state, control_params, rate_constants, rate_coefficients, s) ==
    LET m == [current_state |-> current_state,
              control_params |-> control_params,
              next_event |-> Event(0, current_state, current_state),
              rate_constants |-> rate_constants,
              rate_coefficients |-> rate_coefficients,
              stopped |-> FALSE]
    IN  With(_compute_next_event(m, s, control_params, 0), set_next_event)

\* StateMachine._step that computes the event that follows without moving to
\* the state the pending event leads to
_step_in_place(m, s, control_params, t_offset) ==
    With(_compute_next_event(m, s, control_params, t_offset), set_next_event)

\* StateMachine._step
_step(m, s, control_params, t_offset) ==
    With(_compute_next_event([m EXCEPT !.current_state = m.next_event.to_state],
                             s, control_params, t_offset),
         set_next_event)

\* StateMachine._update
_update(m, s, control_params, t_offset) ==
    IF control_params = m.control_params
    THEN [sm |-> m, rng |-> s]
    ELSE With(_compute_next_event(m, s, control_params, t_offset), set_next_event)

RECURSIVE collect_loop_inclusive(_, _, _, _, _)
\* the while loop of StateMachine.collect with <= for <
collect_loop_inclusive(m, s, control_params, end, events) ==
    IF m.next_event.time <= end /\ m.next_event.time # Inf
    THEN With(_step(m, s, control_params, m.next_event.time), LAMBDA st :
           LET collected == Append(events, m.next_event)
           IN  IF st.sm.stopped
               THEN [sm |-> st.sm, rng |-> st.rng, events |-> collected]
               ELSE collect_loop_inclusive(st.sm, st.rng, control_params, end,
                                           collected))
    ELSE [sm |-> m, rng |-> s, events |-> events]

RECURSIVE collect_loop(_, _, _, _, _)
\* the while loop of StateMachine.collect
collect_loop(m, s, control_params, end, events) ==
    IF m.next_event.time < end
    THEN With(_step(m, s, control_params, m.next_event.time), LAMBDA st :
           LET collected == Append(events, m.next_event)
           IN  IF st.sm.stopped
               THEN [sm |-> st.sm, rng |-> st.rng, events |-> collected]
               ELSE collect_loop(st.sm, st.rng, control_params, end, collected))
    ELSE [sm |-> m, rng |-> s, events |-> events]

\* StateMachine.collect
collect(m, s, control_params, time, dt) ==
    IF m.stopped
    THEN [sm |-> m, rng |-> s, events |-> <<>>]
    ELSE With(_update(m, s, control_params, time), LAMBDA u :
           collect_loop(u.sm, u.rng, control_params, FAdd(time, dt), <<>>))

---------------------------------------------------------------------------
(* The machines the state-machine specification is run on *)

\* three_state_fluorophores: 0 = ON, 1 = OFF, 2 = BLEACHED
ThreeStateRateConstants(k_on) ==
    Matrix(<< <<0, 0, 0>>, <<k_on, 0, 0>>, <<0, 0, 0>> >>)

ThreeStateRateCoefficients(k_off, k_bleach) ==
    Vector(<< Vector(<< Matrix(<< <<0, k_off, k_bleach>>, <<0, 0, 0>>, <<0, 0, 0>> >>) >>) >>)

\* the empty array numpy.array([])
EmptyArray == Vector(<< >>)

Machines ==
    { \* the three-state fluorophore of the sample factory
      [rate_constants |-> ThreeStateRateConstants(1),
       rate_coefficients |-> ThreeStateRateCoefficients(1, 1)],
      \* two states that blink for ever
      [rate_constants |-> Matrix(<< <<0, 1>>, <<1, 0>> >>),
       rate_coefficients |-> Vector(<< Vector(<< Matrix(<< <<0, 1>>, <<0, 0>> >>) >>) >>)],
      \* two states, the second one stopped
      [rate_constants |-> Matrix(<< <<0, 1>>, <<0, 0>> >>),
       rate_coefficients |-> Vector(<< Vector(<< Matrix(<< <<0, 1>>, <<0, 0>> >>) >>) >>)],
      \* second-order dependence on the control parameter
      [rate_constants |-> Matrix(<< <<0, 0>>, <<1, 0>> >>),
       rate_coefficients |-> Vector(<< Vector(<< Matrix(<< <<0, 1>>, <<0, 0>> >>),
                                                 Matrix(<< <<0, 1>>, <<0, 0>> >>) >>) >>)],
      \* rate constants only
      [rate_constants |-> Matrix(<< <<0, 2>>, <<0, 0>> >>),
       rate_coefficients |-> EmptyArray],
      \* every state stopped
      [rate_constants |-> Matrix(<< <<0, 0>>, <<0, 0>> >>),
       rate_coefficients |-> Vector(<< Vector(<< Matrix(<< <<0, 0>>, <<0, 0>> >>) >>) >>)] }

ControlValues == 0 .. 2

\* the control-parameter vectors that fit a machine
ControlParams(rate_coefficients) ==
    [DOMAIN rate_coefficients -> ControlValues]

CollectTimes == {0, TicksPerUnit, 2 * TicksPerUnit}
CollectDts == {TicksPerUnit, 2 * TicksPerUnit}
Seeds == 0 .. RngMod - 1

---------------------------------------------------------------------------
(* The state-machine specification: construction, then collect calls *)

InitSM ==
    \E mach \in Machines :
      \E current_state \in DOMAIN mach.rate_constants :
        \E control_params \in ControlParams(mach.rate_coefficients) :
          \E seed \in Seeds :
            LET c == StateMachine(current_state, control_params,
                                  mach.rate_constants, mach.rate_coefficients, seed)
            IN  /\ sm = c.sm
                /\ smRng = c.rng
                /\ smEvents = << >>
                /\ smCalls = 0
                /\ smCall = 0
                /\ NoSimulator
                /\ NoPair
                /\ NoOptics
                /\ NoDetector
                /\ NoSource
                /\ NoPool
                /\ NoMemo

Collect ==
    /\ smCalls < MaxCollects
    /\ \E control_params \in ControlParams(sm.rate_coefficients) :
         \E time \in CollectTimes :
           \E dt \in CollectDts :
             LET c == collect(sm, smRng, control_params, time, dt)
             IN  /\ sm' = c.sm
                 /\ smRng' = c.rng
                 /\ smEvents' = c.events
                 /\ smCalls' = smCalls + 1
                 /\ UNCHANGED <<smCall, simVars, pairVars, benchVars>>

NextSM == Collect

SpecSM == InitSM /\ [][NextSM]_vars

---------------------------------------------------------------------------
(* The same, with every collect call recorded: its arguments, the vector of *)
(* the call before it and the machine it found.                            *)

CallSeeds == {0, 5, 9, 14}

InitCalls ==
    \E mach \in Machines :
      \E current_state \in DOMAIN mach.rate_constants :
        \E control_params \in ControlParams(mach.rate_coefficients) :
          \E seed \in CallSeeds :
            \E c \in {StateMachine(current_state, control_params,
                                   mach.rate_constants, mach.rate_coefficients, seed)} :
                /\ sm = c.sm
                /\ smRng = c.rng
                /\ smEvents = << >>
                /\ smCalls = 0
                /\ smCall = [control_params |-> control_params, time |-> 0, dt |-> 0,
                             last_p |-> control_params, before |-> c.sm,
                             rng |-> c.rng]
                /\ NoSimulator
                /\ NoPair
                /\ NoOptics
                /\ NoDetector
                /\ NoSource
                /\ NoPool
                /\ NoMemo

CollectCall ==
    /\ smCalls < MaxRecorded
    /\ \E control_params \in ControlParams(sm.rate_coefficients) :
         \E time \in CollectTimes :
           \E dt \in CollectDts :
             \E c \in {collect(sm, smRng, control_params, time, dt)} :
                 /\ sm' = c.sm
                 /\ smRng' = c.rng
                 /\ smEvents' = c.events
                 /\ smCalls' = smCalls + 1
                 /\ smCall' = [control_params |-> control_params, time |-> time,
                               dt |-> dt, last_p |-> smCall.control_params,
                               before |-> sm, rng |-> smRng]
                 /\ UNCHANGED <<simVars, pairVars, benchVars>>

NextCalls == CollectCall

SpecCalls == InitCalls /\ [][NextCalls]_vars

---------------------------------------------------------------------------
(* Source: UniformMono2D.  Limits are pairs <<low, high>>. *)

UniformMono2D(power_max, power, x_lim, y_lim) ==
    [power_max |-> power_max, power |-> power, x_lim |-> x_lim, y_lim |-> y_lim]

\* float('nan'), which the type float of power and power_max includes
NaN == -1000001

\* a < b for two floats: False whenever one of them is NaN
Less(a, b) == a # NaN /\ b # NaN /\ a < b

\* a <= b for two floats
LessEq(a, b) == a # NaN /\ b # NaN /\ a <= b

\* what a setter or __init__ leaves when it raises: the object as it was
SourceRaised(source, error) == [raised |-> error, source |-> source]

\* the power setter: source.power = value
set_power(source, value) ==
    IF Less(value, 0) THEN SourceRaised(source, "ValueError")
    ELSE IF Less(source.power_max, value) THEN SourceRaised(source, "ValueError")
    ELSE [raised |-> "", source |-> [source EXCEPT !.power = value]]

\* source.POWER_MAX = value: the property has no setter
set_POWER_MAX(source, value) == SourceRaised(source, "AttributeError")

\* the x_lim and y_lim setters
set_lim(lim) == IF lim[1] >= lim[2] THEN "ValueError" ELSE ""

\* no object: what a raising __init__ leaves its caller with
NoObject == [power_max |-> 0, power |-> 0, x_lim |-> <<0, 0>>, y_lim |-> <<0, 0>>]

\* UniformMono2D.__init__: _power_max is stored, then power, x_lim and y_lim go
\* through their setters
UniformMono2D__init__(power_max, power, x_lim, y_lim) ==
    LET unset == [power_max |-> power_max, power |-> 0, x_lim |-> x_lim, y_lim |-> y_lim]
        with_power == set_power(unset, power)
    IN  IF with_power.raised # "" THEN SourceRaised(NoObject, with_power.raised)
        ELSE IF set_lim(x_lim) # "" THEN SourceRaised(NoObject, set_lim(x_lim))
        ELSE IF set_lim(y_lim) # "" THEN SourceRaised(NoObject, set_lim(y_lim))
        ELSE [raised |-> "", source |-> UniformMono2D(power_max, power, x_lim, y_lim)]

\* UniformMono2D.irradiance
irradiance(source, x, y) ==
    IF x < source.x_lim[1] \/ x > source.x_lim[2] THEN 0
    ELSE IF y < source.y_lim[1] \/ y > source.y_lim[2] THEN 0
    ELSE (source.power \div (source.x_lim[2] - source.x_lim[1]))
             \div (source.y_lim[2] - source.y_lim[1])

---------------------------------------------------------------------------
(* Sample: EmitterResponse, ConstantEmitters, Fluorophore, Emitters.       *)
(* A Generator reference is [shared |-> TRUE] for the generator that was   *)
(* handed to the sample factory, or [shared |-> FALSE, state |-> s] for a  *)
(* generator the StateMachine made for itself.                             *)

EmitterResponse(x, y, z, photons, wavelength) ==
    [x |-> x, y |-> y, z |-> z, photons |-> photons, wavelength |-> wavelength]

\* the quotient a / b (b > 0) rounded to the nearest integer, ties to even
RoundDiv(a, b) ==
    LET q == a \div b
        r == a - q * b
    IN  IF 2 * r < b THEN q
        ELSE IF 2 * r > b THEN q + 1
        ELSE IF q % 2 = 0 THEN q ELSE q + 1

\* ConstantEmitters.response: int(rate * dt) photons for every emitter
ConstantEmittersResponse(sample, dt) ==
    [i \in 1 .. Len(sample.x) |->
        EmitterResponse(sample.x[i], sample.y[i], sample.z[i],
                        (sample.rate * dt) \div TicksPerUnit, sample.wavelength)]

RECURSIVE on_time(_, _, _, _, _)
\* the time spent in fluorescence_state up to and including the i-th event
on_time(fluorescence_state, time, state_changes, i, acc) ==
    IF i > Len(state_changes) THEN acc
    ELSE LET last_event_time == IF i = 1 THEN time ELSE state_changes[i - 1].time
             interval == FAdd(state_changes[i].time, -last_event_time)
         IN  on_time(fluorescence_state, time, state_changes, i + 1,
                     IF state_changes[i].from_state = fluorescence_state
                     THEN FAdd(acc, interval) ELSE acc)

\* Fluorophore.compute_on_fraction that takes a fluorophore without state
\* changes to be in its fluorescent state
compute_on_fraction_always_on(f, time, dt, state_changes) ==
    IF Len(state_changes) = 0
    THEN [num |-> 1, den |-> 1]
    ELSE LET last == state_changes[Len(state_changes)]
             tail == FAdd(FAdd(time, dt), -last.time)
             on == FAdd(on_time(f.fluorescence_state, time, state_changes, 1, 0),
                        IF last.to_state = f.fluorescence_state THEN tail ELSE 0)
         IN  [num |-> on, den |-> FAdd(time, dt)]

\* Fluorophore.compute_on_fraction, as a fraction [num, den]
compute_on_fraction(f, time, dt, state_changes) ==
    IF Len(state_changes) = 0
    THEN IF f.fluorescence_state = f.state_machine.current_state
         THEN [num |-> 1, den |-> 1]
         ELSE [num |-> 0, den |-> 1]
    ELSE LET last == state_changes[Len(state_changes)]
             tail == FAdd(FAdd(time, dt), -last.time)
             on == FAdd(on_time(f.fluorescence_state, time, state_changes, 1, 0),
                        IF last.to_state = f.fluorescence_state THEN tail ELSE 0)
         IN  [num |-> on, den |-> FAdd(time, dt)]

\* Fluorophore.compute_photon_rate: q*sigma*I / (1 + I / I_sat), in units in
\* which q*sigma = 12 and I_sat = 1
compute_photon_rate(irr) == (12 * irr) \div (1 + irr)

\* Fluorophore.response; s is the state of the shared Generator.  Besides the
\* response, the result records what the method computed on the way: the
\* irradiance, the events collect returned and the on-fraction.
FluorophoreResponse(f, s, time, dt, source) ==
    LET irr == irradiance(source, f.x, f.y)
        own == ~f.rng.shared
    IN  With(collect(f.state_machine, IF own THEN f.rng.state ELSE s,
                     Vector(<<irr>>), time, dt), LAMBDA c :
          LET g == [f EXCEPT !.state_machine = c.sm,
                             !.rng = IF own THEN [shared |-> FALSE, state |-> c.rng]
                                     ELSE f.rng]
              on_fraction == compute_on_fraction(g, time, dt, c.events)
              photons == RoundDiv(on_fraction.num * compute_photon_rate(irr),
                                  on_fraction.den)
          IN  [emitter |-> g,
               rng |-> IF own THEN s ELSE c.rng,
               response |-> EmitterResponse(f.x, f.y, f.z, photons, f.wavelength),
               computed |-> [irradiance |-> irr, state_changes |-> c.events,
                             on_fraction |-> on_fraction]])

RECURSIVE response_serial(_, _, _, _, _, _, _, _)
\* Emitters._response_serial: the emitters in stored order
response_serial(emitters, s, time, dt, source, i, responses, computed) ==
    IF i > Len(emitters)
    THEN [emitters |-> emitters, rng |-> s, responses |-> responses,
          computed |-> computed]
    ELSE With(FluorophoreResponse(emitters[i], s, time, dt, source), LAMBDA r :
           response_serial([emitters EXCEPT ![i] = r.emitter], r.rng, time, dt,
                           source, i + 1, Append(responses, r.response),
                           Append(computed, r.computed)))

NullSample == [kind |-> "null", x |-> << >>, y |-> << >>, z |-> << >>,
               rate |-> 0, wavelength |-> 1, emitters |-> << >>]

ConstantEmitters(x, y, z, rate, wavelength) ==
    [kind |-> "constant", x |-> x, y |-> y, z |-> z,
     rate |-> rate, wavelength |-> wavelength, emitters |-> << >>]

Emitters(emitters) ==
    [kind |-> "emitters", x |-> << >>, y |-> << >>, z |-> << >>,
     rate |-> 0, wavelength |-> 1, emitters |-> emitters]

\* Sample.response of the three variants; s is the state of the shared Generator
SampleResponse(sample, s, time, dt, source) ==
    IF sample.kind = "null"
    THEN [sample |-> sample, rng |-> s, responses |-> << >>, computed |-> << >>]
    ELSE IF sample.kind = "constant"
    THEN [sample |-> sample, rng |-> s,
          responses |-> ConstantEmittersResponse(sample, dt), computed |-> << >>]
    ELSE With(response_serial(sample.emitters, s, time, dt, source, 1, << >>, << >>),
              LAMBDA r : [sample |-> [sample EXCEPT !.emitters = r.emitters],
                          rng |-> r.rng, responses |-> r.responses,
                          computed |-> r.computed])

RECURSIVE three_state_fluorophores(_, _, _, _, _, _, _, _, _, _)
\* three_state_fluorophores(x, y, z, rng=...): with shared = TRUE the
\* Generator in state s is handed to every StateMachine; otherwise every
\* StateMachine makes a Generator of its own, whose state own[i] is not
\* determined by any seed.  Returns the sample and the state the shared
\* Generator is left in.
three_state_fluorophores(x, y, z, k_on, k_off, k_bleach, shared, s, own, fluorophores) ==
    LET i == Len(fluorophores) + 1
    IN  IF i > Len(x)
        THEN [sample |-> Emitters(fluorophores), rng |-> s]
        ELSE With(StateMachine(0, Vector(<<0>>),
                               ThreeStateRateConstants(k_on),
                               ThreeStateRateCoefficients(k_off, k_bleach),
                               IF shared THEN s ELSE own[i]), LAMBDA c :
               LET f == [x |-> x[i], y |-> y[i], z |-> z[i],
                         fluorescence_state |-> 0,
                         state_machine |-> c.sm,
                         wavelength |-> 7,
                         rng |-> IF shared THEN [shared |-> TRUE, state |-> 0]
                                 ELSE [shared |-> FALSE, state |-> c.rng]]
               IN  three_state_fluorophores(x, y, z, k_on, k_off, k_bleach, shared,
                                            IF shared THEN c.rng ELSE s, own,
                                            Append(fluorophores, f)))

\* Emitters([Fluorophore(x, y, z, ..., state_machine=StateMachine(1, [0], ...,
\* rng=rng))]): one fluorophore whose three-state machine is constructed in
\* the dark state 1 and draws from the Generator in state s
dark_fluorophore(x, y, z, k_on, k_off, k_bleach, s) ==
    With(StateMachine(1, Vector(<<0>>), ThreeStateRateConstants(k_on),
                      ThreeStateRateCoefficients(k_off, k_bleach), s), LAMBDA c :
       [sample |-> Emitters(<< [x |-> x, y |-> y, z |-> z,
                                fluorescence_state |-> 0,
                                state_machine |-> c.sm,
                                wavelength |-> 7,
                                rng |-> [shared |-> TRUE, state |-> 0]] >>),
        rng |-> c.rng])

---------------------------------------------------------------------------
(* Emitters._response_parallel.  executor.map submits one call of          *)
(* emitter.response per emitter; the workers of the executor run these     *)
(* calls at the same time.  A call touches what it shares with the others, *)
(* the Generator of its StateMachine, only in _compute_next_event, so one  *)
(* step of a task is one part of Fluorophore.response up to and including  *)
(* its next draw.  p is the sample with the calls in flight: p.emitters,   *)
(* p.rng (the state of the Generator that was handed to the factory),      *)
(* p.tasks and p.completed (the tasks in the order in which they ended).   *)

\* the state of the Generator that the StateMachine of emitter i draws from
TaskRng(p, i) ==
    IF p.emitters[i].rng.shared THEN p.rng ELSE p.emitters[i].rng.state

\* partial(emitter.response, time, dt, source) before a worker has started it
NewTask == [pc |-> "collect", events |-> << >>,
            response |-> EmitterResponse(0, 0, 0, 0, 0)]

\* the task of emitter i after a part of collect that left its machine and
\* its Generator as c.sm and c.rng
put(p, i, c, pc, events) ==
    [p EXCEPT !.emitters[i].state_machine = c.sm,
              !.emitters[i].rng = IF @.shared THEN @ ELSE [@ EXCEPT !.state = c.rng],
              !.rng = IF p.emitters[i].rng.shared THEN c.rng ELSE @,
              !.tasks[i].pc = pc,
              !.tasks[i].events = events]

\* the end of Fluorophore.response: collect has returned state_changes
finish(p, i, state_changes) ==
    LET f == p.emitters[i]
        irr == irradiance(p.source, f.x, f.y)
        on_fraction == compute_on_fraction(f, p.time, p.dt, state_changes)
        photons == RoundDiv(on_fraction.num * compute_photon_rate(irr),
                            on_fraction.den)
    IN  [p EXCEPT !.tasks[i] = [pc |-> "done", events |-> state_changes,
                                response |-> EmitterResponse(f.x, f.y, f.z, photons,
                                                             f.wavelength)],
                  !.completed = Append(@, i)]

\* one part of the call emitter.response(time, dt, source) of emitter i
task_step(p, i) ==
    LET f == p.emitters[i]
        m == f.state_machine
        t == p.tasks[i]
        control_params == Vector(<<irradiance(p.source, f.x, f.y)>>)
    IN  IF t.pc = "collect"
        THEN IF m.stopped THEN finish(p, i, << >>)
             ELSE put(p, i, _update(m, TaskRng(p, i), control_params, p.time),
                      "loop", << >>)
        ELSE IF t.pc = "loop" /\ m.next_event.time < FAdd(p.time, p.dt)
        THEN With(_step(m, TaskRng(p, i), control_params, m.next_event.time),
                  LAMBDA st : put(p, i, st, IF st.sm.stopped THEN "return" ELSE "loop",
                                  Append(t.events, m.next_event)))
        ELSE finish(p, i, t.events)

\* a list of the results in the order in which the tasks ended
results_as_completed(p) ==
    [k \in 1 .. Len(p.completed) |-> p.tasks[p.completed[k]].response]

\* list(executor.map(_parallel_response, funcs)): the results in the order of
\* funcs
results_of_map(p) ==
    [k \in 1 .. Len(p.tasks) |-> p.tasks[k].response]

---------------------------------------------------------------------------
(* Optics: SimpleMicroscope and its PSF.  An image is a function on the    *)
(* pixels <<row, column>> of its shape <<rows, columns>>.  The PSF is      *)
(* separable, as Gaussian2D is; along each axis it spreads an emitter's    *)
(* light evenly over [x0 - half_width, x0 + half_width], and half_width 0  *)
(* puts all of it at x0.  Its values are fractions with the denominator    *)
(* PSFDen, a power of two, so that every product and sum below is exact in *)
(* binary floating point, and the arrays of response are kept as the       *)
(* numerators of such fractions.                                           *)

Pixels(shape) == (0 .. shape[1] - 1) \X (0 .. shape[2] - 1)

PSF(half_width) == [half_width |-> half_width]

SimpleMicroscope(psf) == [psf |-> psf]

Lesser(a, b) == IF a < b THEN a ELSE b
Greater(a, b) == IF a > b THEN a ELSE b

\* the part of the PSF along one axis inside [x, x + dx], for an emitter at
\* x0, as a numerator over PSFAxisDen
PSFAxis(psf, x, x0, dx) ==
    IF psf.half_width = 0
    THEN IF x <= x0 /\ x0 < x + dx THEN 1 ELSE 0
    ELSE Greater(0, Lesser(x + dx, x0 + psf.half_width)
                    - Greater(x, x0 - psf.half_width))

PSFAxisDen(psf) == IF psf.half_width = 0 THEN 1 ELSE 2 * psf.half_width

PSFDen(psf) == PSFAxisDen(psf) * PSFAxisDen(psf)

\* PSF.bin(x, y, x0, y0, dx, dy): the part of the PSF centred at (x0, y0)
\* inside the rectangle with corner (x, y) and sides (dx, dy), as a numerator
\* over PSFDen
PSFBin(psf, x, y, x0, y0, dx, dy) == PSFAxis(psf, x, x0, dx) * PSFAxis(psf, y, y0, dy)

RECURSIVE ImageSum(_, _)
\* np.sum over the pixels in S
ImageSum(image, S) ==
    IF S = {} THEN 0
    ELSE LET p == CHOOSE q \in S : TRUE
         IN  image[p] + ImageSum(image, S \ {p})

\* np.argsort(array - rounded_array, axis=None): the position of pixel p in the
\* ascending order of the residuals; equal residuals keep the order of the
\* flattened array, as numpy's default sort does for arrays this small
ArgsortPosition(residual, p) ==
    Cardinality({q \in DOMAIN residual :
                    \/ residual[q] < residual[p]
                    \/ /\ residual[q] = residual[p]
                       /\ (q[1] < p[1] \/ (q[1] = p[1] /\ q[2] < p[2]))})

\* safe_round(array, total); array and total are numerators over den
safe_round(array, total, den) ==
    LET rounded_array == [p \in DOMAIN array |-> RoundDiv(array[p], den)]
        error == total - den * ImageSum(rounded_array, DOMAIN array)
        num_elements_to_adjust == Abs(error) \div den
        residual == [p \in DOMAIN array |-> array[p] - den * rounded_array[p]]
        copysign == IF error < 0 THEN -1 ELSE 1
    IN  IF error = 0 THEN rounded_array
        ELSE [p \in DOMAIN array |->
                IF ArgsortPosition(residual, p) < num_elements_to_adjust
                THEN rounded_array[p] + copysign
                ELSE rounded_array[p]]

\* emitter.photons * psf_area, as a numerator over PSFDen
emitted_and_clipped_photons(optics, x_lim, y_lim, emitter) ==
    emitter.photons * PSFBin(optics.psf, 0, 0, emitter.x, emitter.y, x_lim[2], y_lim[2])

\* the shape of np.ogrid[y_lim[0]:y_lim[1], x_lim[0]:x_lim[1]]
GridShape(x_lim, y_lim) == <<y_lim[2] - y_lim[1], x_lim[2] - x_lim[1]>>

\* binned_photons of one emitter after safe_round
binned_photons(optics, x_lim, y_lim, emitter) ==
    LET den == PSFDen(optics.psf)
        clipped == emitted_and_clipped_photons(optics, x_lim, y_lim, emitter)
        array == [p \in Pixels(GridShape(x_lim, y_lim)) |->
                     PSFBin(optics.psf, x_lim[1] + p[2], y_lim[1] + p[1],
                            emitter.x, emitter.y, 1, 1) * clipped]
    IN  safe_round(array, clipped * den, den * den)

\* whether numpy can add an array of shape from in place to one of shape to
Broadcastable(from, to) == \A k \in 1 .. 2 : from[k] = to[k] \/ from[k] = 1

\* total_photons += binned_photons, with an axis of length 1 repeated
add_in_place(total_photons, binned, from) ==
    [p \in DOMAIN total_photons |->
        total_photons[p] + binned[<<IF from[1] = 1 THEN 0 ELSE p[1],
                                    IF from[2] = 1 THEN 0 ELSE p[2]>>]]

RECURSIVE accumulate(_, _, _, _, _)
\* the loop of response over the emitters
accumulate(optics, total_photons, x_lim, y_lim, sample_response) ==
    IF sample_response = << >> THEN total_photons
    ELSE With(binned_photons(optics, x_lim, y_lim, Head(sample_response)), LAMBDA b :
           accumulate(optics, add_in_place(total_photons, b, GridShape(x_lim, y_lim)),
                      x_lim, y_lim, Tail(sample_response)))

\* SimpleMicroscope._validate
ValidLimits(x_lim, y_lim) == x_lim[1] < x_lim[2] /\ y_lim[1] < y_lim[2]

\* SimpleMicroscope.response for valid limits with lower bounds >= 0 and
\* photon counts >= 0; ok is FALSE when numpy raises at total_photons +=
OpticsResponse(optics, x_lim, y_lim, sample_response) ==
    LET shape == <<y_lim[2], x_lim[2]>>
        zeros == [p \in Pixels(shape) |-> 0]
    IN  IF sample_response # << >> /\ ~Broadcastable(GridShape(x_lim, y_lim), shape)
        THEN [ok |-> FALSE, shape |-> shape, image |-> zeros]
        ELSE [ok |-> TRUE, shape |-> shape,
              image |-> accumulate(optics, zeros, x_lim, y_lim, sample_response)]

---------------------------------------------------------------------------
(* Detector: SimpleCMOSCamera.  quantum_efficiency is in percent.          *)

SimpleCMOSCamera(baseline, bit_depth, dark_noise, num_pixels, quantum_efficiency, sensitivity) ==
    [baseline |-> baseline, bit_depth |-> bit_depth, dark_noise |-> dark_noise,
     num_pixels |-> num_pixels, quantum_efficiency |-> quantum_efficiency,
     sensitivity |-> sensitivity]

\* Generator.poisson for one element: no draw is made for a zero mean
PoissonSample(s, lam100) == IF lam100 = 0 THEN 0 ELSE lam100 \div 100 + RngRaw(s)
PoissonNext(s, lam100) == IF lam100 = 0 THEN s ELSE RngNext(s)

\* Generator.normal for one element, in units of the scale
NormalSample(s, scale) == scale * ((RngRaw(s) % 3) - 1)

\* the pixels of a shape in the order of the array's memory
PixelAt(shape, k) == <<k \div shape[2], k % shape[2]>>
PixelIndex(shape, p) == p[1] * shape[2] + p[2]

RECURSIVE PoissonStates(_, _, _, _, _)
\* the Generator state before the draw of each pixel, and the state at the end
PoissonStates(det, photons, s, k, states) ==
    IF k = photons.shape[1] * photons.shape[2]
    THEN [states |-> states, rng |-> s]
    ELSE LET lam100 == det.quantum_efficiency * photons.image[PixelAt(photons.shape, k)]
         IN  PoissonStates(det, photons, PoissonNext(s, lam100), k + 1,
                           Append(states, s))

\* what adu.astype(data_type) can do with a value that the unsigned type cannot
\* hold because it is negative.  The conversion is undefined in C: builds for
\* x86 keep the low bits of the truncated value, builds for ARM give 0.
Casts == {"wrap", "saturate"}

\* the number of bits of the numpy type of a BitDepth: uint8 for up to 8 bits,
\* uint16 for up to 16, uint32 beyond
DataTypeBits(bit_depth) == IF bit_depth <= 8 THEN 8 ELSE IF bit_depth <= 16 THEN 16 ELSE 32

\* one element of adu.astype(data_type), for adu <= max_adu
astype(adu, bit_depth, cast) ==
    IF adu >= 0 THEN adu
    ELSE IF cast = "wrap" THEN Pow2(DataTypeBits(bit_depth)) + adu
    ELSE 0

\* SimpleCMOSCamera.response for a photon image of the detector's shape with
\* no negative pixel; the result also holds adu as it is before the cast
DetectorResponse(det, photons, s, cast) ==
    LET shape == photons.shape
        ps == PoissonStates(det, photons, s, 0, << >>)
        photoelectrons == [p \in Pixels(shape) |->
            PoissonSample(ps.states[PixelIndex(shape, p) + 1],
                          det.quantum_efficiency * photons.image[p])]
        electrons == [p \in Pixels(shape) |->
            NormalSample(RngSkip(ps.rng, PixelIndex(shape, p)), det.dark_noise)
            + photoelectrons[p]]
        adu == [p \in Pixels(shape) |-> electrons[p] * det.sensitivity + det.baseline]
        max_adu == Pow2(det.bit_depth) - 1
        clipped == [p \in Pixels(shape) |->
                       IF adu[p] > max_adu THEN max_adu ELSE adu[p]]
    IN  [rng |-> RngSkip(ps.rng, shape[1] * shape[2]),
         response |-> [shape |-> shape,
                       image |-> [p \in Pixels(shape) |->
                                     astype(clipped[p], det.bit_depth, cast)]],
         adu |-> clipped]

\* photons = None
None == [none |-> TRUE]

\* what response returns when it raises: nothing, and a Generator that is as
\* far as the draws made before the raise left it
Raise(s, draws) ==
    [ok |-> FALSE, rng |-> s, draws |-> draws,
     response |-> [shape |-> <<0, 0>>, image |-> [p \in Pixels(<<0, 0>>) |-> 0]],
     adu |-> [p \in Pixels(<<0, 0>>) |-> 0]]

\* SimpleCMOSCamera.response that draws the dark noise before it looks at
\* photons
CameraResponseDrawsFirst(det, photons, s, cast) ==
    IF photons = None
    THEN With(DetectorResponse(det, [shape |-> det.num_pixels,
                                    image |-> [p \in Pixels(det.num_pixels) |-> 0]],
                               s, cast), LAMBDA r :
           [ok |-> TRUE, rng |-> r.rng, draws |-> <<"normal">>,
            response |-> r.response, adu |-> r.adu])
    ELSE IF photons.shape # det.num_pixels
    THEN Raise(RngSkip(s, det.num_pixels[1] * det.num_pixels[2]), <<"normal">>)
    ELSE IF \E p \in DOMAIN photons.image : photons.image[p] < 0
    THEN Raise(RngSkip(s, det.num_pixels[1] * det.num_pixels[2]), <<"normal">>)
    ELSE With(DetectorResponse(det, photons, s, cast), LAMBDA r :
           [ok |-> TRUE, rng |-> r.rng, draws |-> <<"normal", "poisson">>,
            response |-> r.response, adu |-> r.adu])

\* SimpleCMOSCamera.response that takes the shot noise of an absent image too
CameraResponseAlwaysPoisson(det, photons, s, cast) ==
    IF photons # None /\ photons.shape # det.num_pixels
    THEN Raise(s, << >>)
    ELSE IF photons # None /\ \E p \in DOMAIN photons.image : photons.image[p] < 0
    THEN Raise(s, << >>)
    ELSE With(DetectorResponse(det, IF photons = None
                                    THEN [shape |-> det.num_pixels,
                                          image |-> [p \in Pixels(det.num_pixels) |-> 0]]
                                    ELSE photons, s, cast), LAMBDA r :
           [ok |-> TRUE, rng |-> r.rng, draws |-> <<"poisson", "normal">>,
            response |-> r.response, adu |-> r.adu])

\* SimpleCMOSCamera.response(photons, rng=rng): photons is None or an image;
\* draws lists the methods of the Generator the call used, in order
CameraResponse(det, photons, s, cast) ==
    IF photons = None
    THEN With(DetectorResponse(det, [shape |-> det.num_pixels,
                                    image |-> [p \in Pixels(det.num_pixels) |-> 0]],
                               s, cast), LAMBDA r :
           [ok |-> TRUE, rng |-> r.rng, draws |-> <<"normal">>,
            response |-> r.response, adu |-> r.adu])
    ELSE IF photons.shape # det.num_pixels
    THEN Raise(s, << >>)
    ELSE IF \E p \in DOMAIN photons.image : photons.image[p] < 0
    THEN Raise(s, << >>)
    ELSE With(DetectorResponse(det, photons, s, cast), LAMBDA r :
           [ok |-> TRUE, rng |-> r.rng, draws |-> <<"poisson", "normal">>,
            response |-> r.response, adu |-> r.adu])

---------------------------------------------------------------------------
(* Simulator.  The objects a Simulator refers to (detector, optics, sample, *)
(* source, generator, processors) live in one of two object graphs: "live", *)
(* the objects the Simulator was constructed with, and "snap", their deep   *)
(* copies held by _initial_state.  A field of the Simulator that refers to  *)
(* an object holds the name of the graph the object is in; time, dt, the    *)
(* limits, num_measurements and backup are plain values.                    *)

\* a Processor: it raises on its fail_at-th call (never, when fail_at = 0)
Processor(fail_at) == [fail_at |-> fail_at, calls |-> 0]

ObjectFields == {"detector", "optics", "sample", "source", "preprocessors",
                 "post_processors", "rng"}

\* the object a field of the Simulator refers to
Obj(w, field) == w.heap[w.self[field]][field]

\* the Generator the sample's shared StateMachines draw from: the one that
\* was handed to the factory, in the graph the sample is in
SampleRng(w) == w.heap[w.self.sample].rng

StepResponse(sample_response, optics_response, detector_response) ==
    [sample_response |-> sample_response,
     optics_response |-> optics_response,
     detector_response |-> detector_response]

NoImage == [shape |-> <<0, 0>>, image |-> [p \in Pixels(<<0, 0>>) |-> 0]]

\* step_response = None
NoResponse == [none |-> TRUE, value |-> StepResponse(<< >>, NoImage, NoImage)]
Some(response) == [none |-> FALSE, value |-> response]

\* one observable event of a call: what happened, to which processor, at which
\* clock reading, with which step response
LogEntry(what, index, time, response) ==
    [what |-> what, index |-> index, time |-> time, response |-> response]

\* the outcome of a call on the Simulator: the world it leaves, whether it
\* returned, where it raised, the events in order, the frames it produced and
\* the number of steps that returned
Outcome(w, failure, log, frames, steps) ==
    [w |-> w, ok |-> failure = "none", failure |-> failure, log |-> log,
     frames |-> frames, steps |-> steps]

\* Simulator.__deepcopy__ that copies the references, not the objects
shallow_copy(self) == [self EXCEPT !.backup = FALSE]

\* Simulator.__deepcopy__: a Simulator over deep copies of the objects, with
\* backup = False
deepcopy(self) ==
    [f \in DOMAIN self |->
        IF f \in ObjectFields THEN "snap"
        ELSE IF f = "backup" THEN FALSE
        ELSE self[f]]

NoGraph == [detector |-> SimpleCMOSCamera(0, 8, 0, <<0, 0>>, 0, 0),
            optics |-> SimpleMicroscope(PSF(0)), sample |-> NullSample,
            source |-> UniformMono2D(0, 0, <<0, 1>>, <<0, 1>>),
            preprocessors |-> << >>, post_processors |-> << >>, rng |-> 0]

\* Simulator.__init__ and __post_init__; c holds the arguments, and the
\* platform the program runs on
Simulator(c) ==
    LET self == [detector |-> "live", optics |-> "live", sample |-> "live",
                 source |-> "live", time |-> c.time, dt |-> c.dt,
                 x_lim |-> c.x_lim, y_lim |-> c.y_lim,
                 num_measurements |-> c.num_measurements,
                 preprocessors |-> "live", post_processors |-> "live",
                 rng |-> "live", backup |-> c.backup]
        graph == [detector |-> c.detector, optics |-> c.optics, sample |-> c.sample,
                  source |-> c.source, preprocessors |-> c.preprocessors,
                  post_processors |-> c.post_processors, rng |-> c.rng]
    IN  [self |-> self,
         initial_state |-> IF c.backup THEN deepcopy(self) ELSE self,
         heap |-> [live |-> graph, snap |-> IF c.backup THEN graph ELSE NoGraph],
         platform |-> c.platform]

\* Simulator.reset that returns silently without a backup
reset_silent(w) ==
    IF w.self.backup
    THEN Outcome([w EXCEPT !.self = [w.initial_state EXCEPT !.backup = TRUE]],
                 "none", << >>, << >>, 0)
    ELSE Outcome(w, "none", << >>, << >>, 0)

\* Simulator.reset
reset(w) ==
    IF w.self.backup
    THEN Outcome([w EXCEPT !.self = [w.initial_state EXCEPT !.backup = TRUE]],
                 "none", << >>, << >>, 0)
    ELSE Outcome(w, "reset", << >>, << >>, 0)

\* self.time += self.dt, applied twice
advance_clock_twice(w) ==
    [w EXCEPT !.self.time = FAdd(FAdd(w.self.time, w.self.dt), w.self.dt)]

\* self.time += self.dt
advance_clock(w) == [w EXCEPT !.self.time = FAdd(w.self.time, w.self.dt)]

\* Simulator.step with the clock advanced before the responses are computed
step_clock_first(w) ==
    LET self == w.self
        log1 == << LogEntry("clock", 0, FAdd(self.time, self.dt), NoResponse),
                   LogEntry("sample", 0, self.time, NoResponse) >>
        log2 == Append(log1, LogEntry("optics", 0, self.time, NoResponse))
    IN  With(SampleResponse(Obj(w, "sample"), SampleRng(w), self.time, self.dt,
                            Obj(w, "source")), LAMBDA sr :
        With(advance_clock([w EXCEPT !.heap[self.sample].sample = sr.sample,
                                     !.heap[self.sample].rng = sr.rng]), LAMBDA w1 :
          IF ~ValidLimits(self.x_lim, self.y_lim)
          THEN Outcome(w1, "optics", log1, << >>, 0)
          ELSE
          With(OpticsResponse(Obj(w1, "optics"), self.x_lim, self.y_lim,
                              sr.responses), LAMBDA optics_response :
            IF ~optics_response.ok
            THEN Outcome(w1, "optics", log1, << >>, 0)
            ELSE IF optics_response.shape # Obj(w1, "detector").num_pixels
            THEN Outcome(w1, "detector", log2, << >>, 0)
            ELSE
            With(DetectorResponse(Obj(w1, "detector"), optics_response,
                                  Obj(w1, "rng"), w1.platform), LAMBDA dr :
            With(StepResponse(sr.responses, optics_response, dr.response),
                 LAMBDA response :
              Outcome([w1 EXCEPT !.heap[self.rng].rng = dr.rng], "none",
                      Append(log2, LogEntry("detector", 0, self.time, Some(response))),
                      <<response>>, 1))))))

\* Simulator.step, the method that process wraps
step(w) ==
    LET self == w.self
        log1 == << LogEntry("sample", 0, self.time, NoResponse) >>
        log2 == Append(log1, LogEntry("optics", 0, self.time, NoResponse))
    IN  With(SampleResponse(Obj(w, "sample"), SampleRng(w), self.time, self.dt,
                            Obj(w, "source")), LAMBDA sr :
        With([w EXCEPT !.heap[self.sample].sample = sr.sample,
                       !.heap[self.sample].rng = sr.rng], LAMBDA w1 :
          IF ~ValidLimits(self.x_lim, self.y_lim)
          THEN Outcome(w1, "optics", log1, << >>, 0)
          ELSE
          With(OpticsResponse(Obj(w1, "optics"), self.x_lim, self.y_lim,
                              sr.responses), LAMBDA optics_response :
            IF ~optics_response.ok
            THEN Outcome(w1, "optics", log1, << >>, 0)
            ELSE IF optics_response.shape # Obj(w1, "detector").num_pixels
            THEN Outcome(w1, "detector", log2, << >>, 0)
            ELSE
            With(DetectorResponse(Obj(w1, "detector"), optics_response,
                                  Obj(w1, "rng"), w1.platform), LAMBDA dr :
            With(StepResponse(sr.responses, optics_response, dr.response),
                 LAMBDA response :
            With(advance_clock([w1 EXCEPT !.heap[self.rng].rng = dr.rng]),
                 LAMBDA w2 :
              Outcome(w2, "none",
                      log2 \o << LogEntry("detector", 0, self.time, Some(response)),
                                 LogEntry("clock", 0, w2.self.time, NoResponse) >>,
                      <<response>>, 1)))))))

RECURSIVE call_processors(_, _, _, _, _)
\* for processor in self.<field>: processor(self, step_response); the loop
\* ends at the first processor that raises
call_processors(w, field, response, i, log) ==
    IF i > Len(Obj(w, field))
    THEN Outcome(w, "none", log, << >>, 0)
    ELSE LET processor == Obj(w, field)[i]
             called == [processor EXCEPT !.calls = processor.calls + 1]
             log1 == Append(log, LogEntry(field, i, w.self.time, response))
         IN  With([w EXCEPT !.heap[w.self[field]][field][i] = called], LAMBDA w1 :
               IF called.calls = called.fail_at
               THEN Outcome(w1, field, log1, << >>, 0)
               ELSE call_processors(w1, field, response, i + 1, log1))

\* process with the post-processors called before the step
process_post_first(w) ==
    With(call_processors(w, "post_processors", NoResponse, 1, << >>), LAMBDA post :
      IF ~post.ok THEN post
      ELSE With(step(post.w), LAMBDA body :
             Outcome(body.w, body.failure, post.log \o body.log, body.frames,
                     body.steps)))

\* process: the wrapper of Simulator.step, which is what simulator.step() calls
process(w) ==
    With(call_processors(w, "preprocessors", NoResponse, 1, << >>), LAMBDA pre :
      IF ~pre.ok THEN pre
      ELSE With(step(pre.w), LAMBDA body :
             IF ~body.ok
             THEN Outcome(body.w, body.failure, pre.log \o body.log, << >>, 0)
             ELSE With(call_processors(body.w, "post_processors",
                                       Some(body.frames[1]), 1,
                                       pre.log \o body.log), LAMBDA post :
                    IF ~post.ok THEN post
                    ELSE Outcome(post.w, "none", post.log, body.frames, 1))))

RECURSIVE run_steps(_, _, _, _, _)
\* for num in range(count): measurements[num] = self.step().detector_response
run_steps(w, count, num, log, measurements) ==
    IF num = count
    THEN Outcome(w, "none", log, measurements, num)
    ELSE With(process(w), LAMBDA r :
           IF ~r.ok
           THEN Outcome(r.w, r.failure, log \o r.log, << >>, num)
           ELSE run_steps(r.w, count, num + 1, log \o r.log,
                          Append(measurements, r.frames[1].detector_response)))

\* Simulator.run that runs one step too many
run_one_more(w, with_reset) ==
    run_steps(w, w.self.num_measurements + 1, 0, << >>, << >>)

\* Simulator.run
run(w, with_reset) ==
    With(run_steps(w, w.self.num_measurements, 0, << >>, << >>), LAMBDA steps :
      IF ~steps.ok \/ ~with_reset THEN steps
      ELSE With(reset(steps.w), LAMBDA r :
             Outcome(r.w, r.failure,
                     Append(steps.log,
                            LogEntry("reset", 0, steps.w.self.time, NoResponse)),
                     IF r.ok THEN steps.frames ELSE << >>, steps.steps)))

---------------------------------------------------------------------------
(* The Simulators the specifications are run on: a 1 x 2 pixel camera over *)
(* two emitters, one in each pixel, both inside the illuminated area.      *)

\* <<time, dt>>; at time 2^FloatBits a float no longer resolves one tick
Timings == { <<0, TicksPerUnit>>, <<TicksPerUnit, 2 * TicksPerUnit>>,
             <<Pow2(FloatBits), 1>> }

\* seeds of the Simulator's Generator
SimSeeds == {0, 9}

\* states an unseeded Generator may start in
Entropy == {1, 10}

\* fail_at of the preprocessors and of the post-processors
ProcessorSets == { << <<0, 0>>, <<0, 0>> >>, << <<0, 1>>, <<0, 0>> >>,
                   << <<0, 0>>, <<0, 2>> >>, << <<0>>, <<1, 0>> >> }

Config(timing, num_measurements, kind, seed, own, pre, post, geometry, backup) ==
    [time |-> timing[1], dt |-> timing[2], num_measurements |-> num_measurements,
     kind |-> kind, seed |-> seed, own |-> own, pre |-> pre, post |-> post,
     geometry |-> geometry, backup |-> backup]

Configs ==
    { Config(t, n, k, s, <<1, 10>>, << >>, << >>, "ok", b) :
        t \in Timings, n \in 0 .. MaxMeasurements,
        k \in {"null", "constant", "shared", "own"}, s \in SimSeeds, b \in BOOLEAN }
    \cup
    { Config(t, n, "dark", s, <<1, 10>>, << >>, << >>, "ok", TRUE) :
        t \in Timings, n \in 1 .. MaxMeasurements, s \in SimSeeds }
    \cup
    { Config(<<0, TicksPerUnit>>, n, k, 0, <<1, 10>>, p[1], p[2], "ok", b) :
        n \in 1 .. MaxMeasurements, k \in {"constant", "shared"},
        p \in ProcessorSets, b \in BOOLEAN }
    \cup
    { Config(<<0, TicksPerUnit>>, 1, "shared", 0, <<1, 10>>, p, p, g, b) :
        p \in { << >>, <<0>> }, g \in {"bad_limits", "bad_shape"}, b \in BOOLEAN }

\* the two Simulators of SpecPair differ only in what no seed determines
PairConfigs ==
    { Config(<<0, TicksPerUnit>>, n, k, s, << >>, << >>, << >>, "ok", FALSE) :
        n \in 1 .. MaxMeasurements, k \in {"null", "constant", "shared", "own"},
        s \in SimSeeds }

\* the sample of a configuration and the state its construction leaves the
\* seeded Generator in
BuildSample(c, own) ==
    IF c.kind = "null" THEN [sample |-> NullSample, rng |-> c.seed]
    ELSE IF c.kind = "constant"
    THEN [sample |-> ConstantEmitters(<<0, 1>>, <<0, 0>>, <<0, 0>>, 9, 7),
          rng |-> c.seed]
    ELSE IF c.kind = "dark"
    THEN dark_fluorophore(0, 0, 0, 1, 1, 1, c.seed)
    ELSE three_state_fluorophores(<<0, 1>>, <<0, 0>>, <<0, 0>>, 1, 1, 1,
                                  c.kind = "shared", c.seed, own, << >>)

\* the Simulator of a configuration
BuildSimulator(c, own, platform) ==
    With(BuildSample(c, own), LAMBDA built :
        Simulator(
          [detector |-> SimpleCMOSCamera(4, 4, 1,
                            IF c.geometry = "bad_shape" THEN <<2, 2>> ELSE <<1, 2>>,
                            50, 2),
           optics |-> SimpleMicroscope(PSF(0)),
           sample |-> built.sample,
           source |-> UniformMono2D(4, IF c.kind = "dark" THEN 0 ELSE 2,
                                    <<0, 1>>, <<0, 1>>),
           time |-> c.time, dt |-> c.dt,
           x_lim |-> IF c.geometry = "bad_limits" THEN <<2, 0>> ELSE <<0, 2>>,
           y_lim |-> <<0, 1>>,
           num_measurements |-> c.num_measurements,
           preprocessors |-> [i \in 1 .. Len(c.pre) |-> Processor(c.pre[i])],
           post_processors |-> [i \in 1 .. Len(c.post) |-> Processor(c.post[i])],
           rng |-> built.rng,
           backup |-> c.backup,
           platform |-> platform]))

\* what of a Simulator's state an observer can read: its fields, with the
\* objects they refer to
View(w) ==
    [time |-> w.self.time, dt |-> w.self.dt, x_lim |-> w.self.x_lim,
     y_lim |-> w.self.y_lim, num_measurements |-> w.self.num_measurements,
     backup |-> w.self.backup, sample |-> Obj(w, "sample"),
     sample_rng |-> SampleRng(w), source |-> Obj(w, "source"),
     rng |-> Obj(w, "rng")]

---------------------------------------------------------------------------
(* The specification of one Simulator: construction, then step(), run()    *)
(* and reset() calls in any order.                                         *)

NoCall == [op |-> "none", with_reset |-> FALSE, ok |-> TRUE, failure |-> "none",
           log |-> << >>, frames |-> << >>, steps |-> 0]

Init ==
    \E c \in Configs :
      \E platform \in Casts :
        \E w \in {BuildSimulator(c, c.own, platform)} :
          /\ world = w
          /\ construction = View(w)
          /\ hist = << >>
          /\ lastCall = NoCall
          /\ before = w
          /\ NoStateMachine
          /\ NoPair
          /\ NoOptics
          /\ NoDetector
          /\ NoSource
          /\ NoPool
          /\ NoMemo

\* a call returns or raises: out is its outcome
Call(op, with_reset, out) ==
    /\ Len(hist) < MaxCalls
    /\ world' = out.w
    /\ before' = world
    /\ lastCall' = [op |-> op, with_reset |-> with_reset, ok |-> out.ok,
                    failure |-> out.failure, log |-> out.log,
                    frames |-> out.frames, steps |-> out.steps]
    /\ hist' = Append(hist, [op |-> op, with_reset |-> with_reset, ok |-> out.ok,
                             frames |-> out.frames, steps |-> out.steps])
    /\ UNCHANGED <<construction, smVars, pairVars, benchVars>>

StepCall == \E out \in {process(world)} : Call("step", FALSE, out)

RunCall ==
    \E with_reset \in BOOLEAN :
      \E out \in {run(world, with_reset)} : Call("run", with_reset, out)

ResetCall == \E out \in {reset(world)} : Call("reset", FALSE, out)

Next == StepCall \/ RunCall \/ ResetCall

Spec == Init /\ [][Next]_vars

---------------------------------------------------------------------------
(* The specification of two Simulators built from the same configuration   *)
(* with the same seed, each of which is run.                               *)

InitPair ==
    \E c \in PairConfigs :
      \E ownA \in Entropy \X Entropy :
        \E ownB \in Entropy \X Entropy :
         \E platform \in Casts :
          /\ simA = BuildSimulator(c, ownA, platform)
          /\ simB = BuildSimulator(c, ownB, platform)
          /\ stacksA = << >>
          /\ stacksB = << >>
          /\ NoStateMachine
          /\ NoSimulator
          /\ NoOptics
          /\ NoDetector
          /\ NoSource
          /\ NoPool
          /\ NoMemo

RunA ==
    /\ Len(stacksA) < MaxCalls
    /\ \E out \in {run(simA, FALSE)} :
         simA' = out.w /\ stacksA' = Append(stacksA, out.frames)
    /\ UNCHANGED <<simB, stacksB, smVars, simVars, benchVars>>

RunB ==
    /\ Len(stacksB) < MaxCalls
    /\ \E out \in {run(simB, FALSE)} :
         simB' = out.w /\ stacksB' = Append(stacksB, out.frames)
    /\ UNCHANGED <<simA, stacksA, smVars, simVars, benchVars>>

NextPair == RunA \/ RunB

SpecPair == InitPair /\ [][NextPair]_vars

---------------------------------------------------------------------------
(* The specification of one SimpleMicroscope: construction, then one       *)
(* response call on a sample response of up to two emitters.               *)

Limits == {<<0, 1>>, <<0, 2>>, <<1, 2>>, <<0, 3>>, <<1, 3>>}

EmitterResponses ==
    { EmitterResponse(x, y, 0, photons, 7) :
        x \in 0 .. 2, y \in 0 .. 1, photons \in 0 .. MaxPhotons }

SampleResponses ==
    { << >> } \cup { <<e>> : e \in EmitterResponses }
    \cup { <<e, f>> : e \in EmitterResponses,
                      f \in { g \in EmitterResponses : g.photons \in {1, MaxPhotons} } }

NotCalled == [called |-> FALSE, ok |-> TRUE, shape |-> <<0, 0>>,
              image |-> [p \in Pixels(<<0, 0>>) |-> 0]]

InitOptics ==
    \E half_width \in 0 .. 1 :
      \E x_lim \in Limits :
        \E y_lim \in { l \in Limits : l[2] <= 2 } :
            /\ scope = [optics |-> SimpleMicroscope(PSF(half_width)),
                        x_lim |-> x_lim, y_lim |-> y_lim,
                        sample_response |-> << >>]
            /\ scopeOut = NotCalled
            /\ NoStateMachine
            /\ NoSimulator
            /\ NoPair
            /\ NoDetector
            /\ NoSource
            /\ NoPool
            /\ NoMemo

Respond ==
    /\ ~scopeOut.called
    /\ ValidLimits(scope.x_lim, scope.y_lim)
    /\ \E sample_response \in SampleResponses :
         \E out \in {OpticsResponse(scope.optics, scope.x_lim, scope.y_lim,
                                    sample_response)} :
             /\ scope' = [scope EXCEPT !.sample_response = sample_response]
             /\ scopeOut' = [called |-> TRUE, ok |-> out.ok, shape |-> out.shape,
                             image |-> out.image]
    /\ UNCHANGED <<smVars, simVars, pairVars, camera, cameraOut, laser, pool, memo>>

NextOptics == Respond

SpecOptics == InitOptics /\ [][NextOptics]_vars

---------------------------------------------------------------------------
(* The specification of one SimpleCMOSCamera: construction, then response  *)
(* calls that are all handed the same seeded Generator, as the calls of    *)
(* the steps of a Simulator are.                                           *)

BrightPixel == 200

PhotonImages ==
    { [shape |-> <<1, 2>>, image |-> [p \in Pixels(<<1, 2>>) |-> v[p[2] + 1]]] :
        v \in {0, 1, BrightPixel} \X {0, 1, BrightPixel} }

\* images that response rejects: one of another shape, one with a negative
\* pixel
BadImages ==
    { [shape |-> <<2, 2>>, image |-> [p \in Pixels(<<2, 2>>) |-> 1]],
      [shape |-> <<1, 2>>, image |-> [p \in Pixels(<<1, 2>>) |-> p[2] - 1]] }

NoFrame == [called |-> FALSE, ok |-> TRUE, shape |-> <<0, 0>>,
            image |-> [p \in Pixels(<<0, 0>>) |-> 0],
            adu |-> [p \in Pixels(<<0, 0>>) |-> 0],
            draws |-> << >>, rng_before |-> 0]

InitDetector ==
    \E baseline \in {0, 4} :
      \E bit_depth \in {8, 10} :
        \E dark_noise \in {0, 3} :
          \E quantum_efficiency \in {50, 100} :
            \E sensitivity \in {1, 2} :
              \E platform \in Casts :
                \E seed \in SimSeeds :
                  /\ camera = [detector |-> SimpleCMOSCamera(baseline, bit_depth,
                                                dark_noise, <<1, 2>>,
                                                quantum_efficiency, sensitivity),
                               platform |-> platform,
                               photons |-> None,
                               rng |-> seed,
                               calls |-> << >>,
                               draws |-> << >>]
                  /\ cameraOut = NoFrame
                  /\ NoStateMachine
                  /\ NoSimulator
                  /\ NoPair
                  /\ NoOptics
                  /\ NoSource
                  /\ NoPool
                  /\ NoMemo

\* one response call; camera.calls records which kind of call each was and
\* camera.draws every draw made on the Generator so far
Expose ==
    /\ Len(camera.calls) < MaxExposures
    /\ \E photons \in PhotonImages \cup BadImages \cup {None} :
         \E out \in {CameraResponse(camera.detector, photons, camera.rng,
                                    camera.platform)} :
             /\ camera' = [camera EXCEPT
                             !.photons = photons,
                             !.rng = out.rng,
                             !.calls = Append(@, IF ~out.ok THEN "raised"
                                                 ELSE IF photons = None THEN "none"
                                                 ELSE "image"),
                             !.draws = @ \o out.draws]
             /\ cameraOut' = [called |-> TRUE, ok |-> out.ok,
                              shape |-> out.response.shape,
                              image |-> out.response.image, adu |-> out.adu,
                              draws |-> out.draws, rng_before |-> camera.rng]
    /\ UNCHANGED <<smVars, simVars, pairVars, scope, scopeOut, laser, pool, memo>>

NextDetector == Expose

SpecDetector == InitDetector /\ [][NextDetector]_vars

---------------------------------------------------------------------------
(* The specification of one UniformMono2D: construction, then assignments  *)
(* to its power and to POWER_MAX.                                          *)

PowerValues == {-1, 0, 1, 2, Inf, NaN}

SourceLimits == {<<0, 2>>, <<2, 2>>}

InitSource ==
    \E power_max \in PowerValues :
      \E power \in PowerValues :
        \E x_lim \in SourceLimits :
          \E out \in {UniformMono2D__init__(power_max, power, x_lim, <<0, 2>>)} :
            /\ laser = [constructed |-> out.raised = "",
                        source |-> out.source,
                        assignments |-> 0,
                        last |-> [attribute |-> "__init__", value |-> power,
                                  limit |-> power_max,
                                  raised |-> out.raised, before |-> out.source]]
            /\ NoStateMachine
            /\ NoSimulator
            /\ NoPair
            /\ NoOptics
            /\ NoDetector
            /\ NoPool
            /\ NoMemo

\* source.power = value
SetPower ==
    /\ laser.constructed
    /\ laser.assignments < MaxAssignments
    /\ \E value \in PowerValues :
         \E out \in {set_power(laser.source, value)} :
           laser' = [laser EXCEPT
                       !.source = out.source,
                       !.assignments = @ + 1,
                       !.last = [attribute |-> "power", value |-> value,
                                 limit |-> laser.source.power_max,
                                 raised |-> out.raised, before |-> laser.source]]
    /\ UNCHANGED <<smVars, simVars, pairVars, scope, scopeOut, camera, cameraOut, pool, memo>>

\* source.POWER_MAX = value
SetPowerMax ==
    /\ laser.constructed
    /\ laser.assignments < MaxAssignments
    /\ \E value \in PowerValues :
         \E out \in {set_POWER_MAX(laser.source, value)} :
           laser' = [laser EXCEPT
                       !.source = out.source,
                       !.assignments = @ + 1,
                       !.last = [attribute |-> "POWER_MAX", value |-> value,
                                 limit |-> laser.source.power_max,
                                 raised |-> out.raised, before |-> laser.source]]
    /\ UNCHANGED <<smVars, simVars, pairVars, scope, scopeOut, camera, cameraOut, pool, memo>>

NextSource == SetPower \/ SetPowerMax

SpecSource == InitSource /\ [][NextSource]_vars

---------------------------------------------------------------------------
(* The specification of an Emitters sample of a Simulator that has an      *)
(* executor: the sample is built by three_state_fluorophores, with the     *)
(* Simulator's Generator as rng or without rng, and every step of the      *)
(* Simulator dispatches one response call per emitter.                     *)

PoolSeeds == {0, 5, 9, 14}

InitPool ==
    \E shared \in BOOLEAN :
      \E seed \in PoolSeeds :
        \E own \in Entropy \X Entropy :
          \E dt \in CollectDts :
            \E built \in {three_state_fluorophores(<<0, 1>>, <<0, 0>>, <<0, 0>>, 1, 1, 1,
                                                   shared, seed, own, << >>)} :
              /\ pool = [emitters |-> built.sample.emitters,
                         rng |-> built.rng,
                         source |-> UniformMono2D(4, 2, <<0, 1>>, <<0, 1>>),
                         time |-> 0, dt |-> dt,
                         tasks |-> << >>, completed |-> << >>,
                         calls |-> 0, gathered |-> FALSE,
                         result |-> << >>, serial |-> << >>, order |-> << >>]
              /\ NoStateMachine
              /\ NoSimulator
              /\ NoPair
              /\ NoOptics
              /\ NoDetector
              /\ NoSource
              /\ NoMemo

\* Simulator.step calls sample.response(time, dt, source, executor), which
\* hands one task per emitter to the executor; pool.serial is what
\* _response_serial would return for the same call
Dispatch ==
    /\ pool.tasks = << >>
    /\ pool.calls < MaxDispatches
    /\ \E out \in {response_serial(pool.emitters, pool.rng, pool.time, pool.dt,
                                   pool.source, 1, << >>, << >>)} :
         pool' = [pool EXCEPT !.tasks = [i \in DOMAIN pool.emitters |-> NewTask],
                              !.completed = << >>,
                              !.calls = @ + 1,
                              !.gathered = FALSE,
                              !.serial = out.responses]
    /\ UNCHANGED <<smVars, simVars, pairVars, scope, scopeOut, camera, cameraOut, laser, memo>>

\* a worker runs one part of a task
Work ==
    /\ \E i \in DOMAIN pool.tasks :
         /\ pool.tasks[i].pc # "done"
         /\ \E out \in {task_step(pool, i)} : pool' = out
    /\ UNCHANGED <<smVars, simVars, pairVars, scope, scopeOut, camera, cameraOut, laser, memo>>

\* every task has ended: response returns the list and step advances the clock
Gather ==
    /\ pool.tasks # << >>
    /\ \A i \in DOMAIN pool.tasks : pool.tasks[i].pc = "done"
    /\ pool' = [pool EXCEPT !.result = results_of_map(pool),
                            !.order = pool.completed,
                            !.gathered = TRUE,
                            !.tasks = << >>,
                            !.time = FAdd(pool.time, pool.dt)]
    /\ UNCHANGED <<smVars, simVars, pairVars, scope, scopeOut, camera, cameraOut, laser, memo>>

NextPool == Dispatch \/ Work \/ Gather

SpecPool == InitPool /\ [][NextPool]_vars

---------------------------------------------------------------------------
(* The specification of compute_rates_cached: the cache starts empty and   *)
(* the function is called, by any StateMachine of the process, with the    *)
(* tuples of that machine and any control parameters.                      *)

\* the arguments of a call: the tensors of a machine with one control
\* parameter or none
RateArguments ==
    { <<control_params, mach.rate_constants, mach.rate_coefficients>> :
        mach \in Machines,
        control_params \in [0 .. 0 -> ControlValues] \cup {EmptyArray} }

InitRates ==
    /\ memo = [cache |-> << >>, called |-> FALSE, hit |-> FALSE, raised |-> FALSE,
               arguments |-> <<EmptyArray, EmptyArray, EmptyArray>>,
               result |-> EmptyArray]
    /\ NoStateMachine
    /\ NoSimulator
    /\ NoPair
    /\ NoOptics
    /\ NoDetector
    /\ NoSource
    /\ NoPool

\* compute_rates_cached(control_params, rate_constants, rate_coefficients)
ComputeRates ==
    /\ \E a \in RateArguments :
         \E out \in {lru_cache(memo.cache, a[1], a[2], a[3])} :
           memo' = [cache |-> out.cache, called |-> TRUE, hit |-> out.hit,
                    raised |-> out.raised, arguments |-> a, result |-> out.result]
    /\ UNCHANGED <<smVars, simVars, pairVars, scope, scopeOut, camera, cameraOut, laser, pool>>

NextRates == ComputeRates

SpecRates == InitRates /\ [][NextRates]_vars

---------------------------------------------------------------------------
(* Claims about the Simulator, checked under Spec and SpecPair *)

\* the call reset the Simulator and returned
Resets(call) ==
    call.ok /\ (call.op = "reset" \/ (call.op = "run" /\ call.with_reset))

RECURSIVE SinceReset(_)
\* the calls made after the last reset that returned
SinceReset(h) ==
    IF h = << >> \/ Resets(h[Len(h)]) THEN << >>
    ELSE Append(SinceReset(SubSeq(h, 1, Len(h) - 1)), h[Len(h)])

RECURSIVE StepsOf(_)
\* the number of steps that returned in the calls h
StepsOf(h) == IF h = << >> THEN 0 ELSE h[1].steps + StepsOf(Tail(h))

AllReturned(h) == \A i \in 1 .. Len(h) : h[i].ok

RECURSIVE AddRepeatedly(_, _, _)
\* t with dt added k times, each sum rounded to a float
AddRepeatedly(t, dt, k) ==
    IF k = 0 THEN t ELSE AddRepeatedly(FAdd(t, dt), dt, k - 1)

\* the events of the steps of the last call
StepLog == SelectSeq(lastCall.log, LAMBDA e : e.what # "reset")

\* every step the last call began has returned
StepsCompleted ==
    /\ lastCall.op \in {"step", "run"}
    /\ lastCall.failure \in {"none", "reset"}

\* the events of one step that returns, as <<what, index>>
StepShape(npre, npost) ==
    [i \in 1 .. npre |-> <<"preprocessors", i>>]
    \o << <<"sample", 0>>, <<"optics", 0>>, <<"detector", 0>>, <<"clock", 0>> >>
    \o [i \in 1 .. npost |-> <<"post_processors", i>>]

\* the i-th processor of the list raised in the last call
Raised(field) ==
    \E i \in 1 .. Len(Obj(world, field)) :
        /\ Obj(world, field)[i].calls = Obj(world, field)[i].fail_at
        /\ Obj(before, field)[i].calls # Obj(before, field)[i].fail_at

\* C1: with backup=true, the state right after every reset() that returns,
\* the first and every later one, equals the state at construction: time, dt,
\* limits, num_measurements, sample, source, RNG state, and backup is true.
C1_EveryResetRestoresConstruction ==
    Resets(lastCall) => View(world) = construction

\* C2: with backup=true, run(); reset(); run() on a new Simulator returns two
\* identical frame stacks, and so does run(reset=true); run().
C2_ResetThenRunRepeatsStack ==
    /\ ( /\ Len(hist) = 3
         /\ hist[1].op = "run" /\ ~hist[1].with_reset /\ hist[1].ok
         /\ hist[2].op = "reset" /\ hist[2].ok
         /\ hist[3].op = "run" /\ hist[3].ok )
       => hist[3].frames = hist[1].frames
    /\ ( /\ Len(hist) >= 2
         /\ hist[1].op = "run" /\ hist[1].with_reset /\ hist[1].ok
         /\ hist[2].op = "run" /\ hist[2].ok )
       => hist[2].frames = hist[1].frames

\* the second run of run(); reset(); run() has returned a stack of frames, and
\* the first run had changed the sample and the Generator
C2_Witness ==
    /\ Len(hist) = 3
    /\ hist[1].op = "run" /\ ~hist[1].with_reset /\ hist[1].ok
    /\ hist[2].op = "reset" /\ hist[2].ok
    /\ hist[3].op = "run" /\ hist[3].ok
    /\ Len(hist[3].frames) = MaxMeasurements
    /\ Obj(world, "sample").kind = "emitters"
    /\ View(world).rng # construction.rng
    /\ View(world).sample # construction.sample

\* C3: two Simulators built with identical configuration and the same seed
\* return identical frame stacks from run(), for every sample variant.
C3_SeedDeterminesRun ==
    \A i \in 1 .. Len(stacksA) : i <= Len(stacksB) => stacksA[i] = stacksB[i]

\* C4 as stated: after k steps that returned since construction or the last
\* reset, time == initial_time + k*dt.
C4_ClockIsInitialPlusKdt ==
    AllReturned(SinceReset(hist)) =>
        world.self.time =
            FAdd(construction.time, FMul(StepsOf(SinceReset(hist)), world.self.dt))

\* C4 amended: after k steps that returned since construction or the last
\* reset, time is initial_time with dt added k times in floating point, which
\* is initial_time + k*dt when every partial sum is a float; run() without
\* reset adds dt num_measurements times; a call that makes no step and does not
\* reset leaves time unchanged.
C4_ClockAddsDtPerStep ==
    LET k == StepsOf(SinceReset(hist))
        dt == world.self.dt
    IN  /\ AllReturned(SinceReset(hist)) =>
            /\ world.self.time = AddRepeatedly(construction.time, dt, k)
            /\ (\A j \in 1 .. k :
                    FRound(construction.time + j * dt) = construction.time + j * dt)
               => world.self.time = construction.time + k * dt
        /\ (lastCall.op = "run" /\ lastCall.ok /\ ~lastCall.with_reset) =>
              world.self.time = AddRepeatedly(before.self.time, dt,
                                              before.self.num_measurements)
        /\ (lastCall.op = "step" /\ lastCall.ok) =>
              world.self.time = FAdd(before.self.time, dt)
        /\ (~Resets(lastCall) /\ ~\E i \in 1 .. Len(lastCall.log) :
                                      lastCall.log[i].what = "clock")
           => world.self.time = before.self.time

\* two steps have returned at a time where a float does not resolve dt
C4_Witness ==
    /\ AllReturned(SinceReset(hist))
    /\ StepsOf(SinceReset(hist)) >= 2
    /\ world.self.time # construction.time + StepsOf(SinceReset(hist)) * world.self.dt

\* C5: within a step every preprocessor is called once, in order, with no step
\* response; then the sample at the time before the increment, the optics, the
\* detector; then time += dt; then every post-processor once, in order, with
\* the StepResponse the step returns.  The next step begins after that.
C5_StepOrder ==
    StepsCompleted =>
        LET npre == Len(Obj(before, "preprocessors"))
            npost == Len(Obj(before, "post_processors"))
            shape == StepShape(npre, npost)
            L == Len(shape)
        IN  /\ Len(StepLog) = lastCall.steps * L
            /\ \A k \in 0 .. lastCall.steps - 1 :
                 LET seg == SubSeq(StepLog, k * L + 1, (k + 1) * L)
                     t0 == IF k = 0 THEN before.self.time ELSE StepLog[k * L].time
                 IN  /\ \A j \in 1 .. L : <<seg[j].what, seg[j].index>> = shape[j]
                     /\ \A j \in 1 .. npre + 3 : seg[j].time = t0
                     /\ \A j \in 1 .. npre : seg[j].response = NoResponse
                     /\ ~seg[npre + 3].response.none
                     /\ seg[npre + 4].time = FAdd(t0, before.self.dt)
                     /\ \A j \in npre + 5 .. L :
                          /\ seg[j].time = seg[npre + 4].time
                          /\ seg[j].response = seg[npre + 3].response
                     /\ lastCall.op = "step" =>
                          seg[npre + 3].response = Some(lastCall.frames[1])

\* a run of two steps with two preprocessors and two post-processors returned
C5_Witness ==
    /\ lastCall.op = "run" /\ lastCall.ok /\ lastCall.steps = 2
    /\ Len(Obj(before, "preprocessors")) = 2
    /\ Len(Obj(before, "post_processors")) = 2

\* C6: run() calls step() num_measurements times and returns that many
\* frames, row k being the detector response of the k-th step; with
\* num_measurements = 0 no step is made, time is unchanged and the stack is
\* empty; reset is invoked afterwards if and only if reset=true.
C6_RunStepsAndRows ==
    (lastCall.op = "run" /\ StepsCompleted) =>
        LET n == before.self.num_measurements
            detections == SelectSeq(StepLog, LAMBDA e : e.what = "detector")
            begun == SelectSeq(StepLog, LAMBDA e : e.what = "sample")
            resets == SelectSeq(lastCall.log, LAMBDA e : e.what = "reset")
        IN  /\ lastCall.steps = n /\ Len(begun) = n /\ Len(detections) = n
            /\ lastCall.ok =>
                 /\ Len(lastCall.frames) = n
                 /\ \A k \in 1 .. n :
                      lastCall.frames[k] = detections[k].response.value.detector_response
            /\ n = 0 =>
                 /\ StepLog = << >>
                 /\ \A i \in 1 .. Len(resets) : resets[i].time = before.self.time
                 /\ ~lastCall.with_reset => world.self.time = before.self.time
            /\ Len(resets) = (IF lastCall.with_reset THEN 1 ELSE 0)
            /\ \A i \in 1 .. Len(lastCall.log) :
                 lastCall.log[i].what = "reset" => i = Len(lastCall.log)

\* a run with reset=true returned two frames that differ
C6_Witness ==
    /\ lastCall.op = "run" /\ lastCall.ok /\ lastCall.with_reset
    /\ Len(lastCall.frames) = 2
    /\ lastCall.frames[1] # lastCall.frames[2]

\* C7: a failure of a processor propagates out of step(); after a failure of
\* a preprocessor the clock is unchanged and sample, optics and detector were
\* not invoked; after a failure of a post-processor the clock has advanced by
\* dt; after any other failure of step the clock is unchanged.
C7_ProcessorFailure ==
    lastCall.op = "step" =>
        /\ (Raised("preprocessors") \/ Raised("post_processors")) => ~lastCall.ok
        /\ Raised("preprocessors") =>
             /\ world.self.time = before.self.time
             /\ \A i \in 1 .. Len(lastCall.log) :
                  lastCall.log[i].what \notin {"sample", "optics", "detector"}
             /\ Obj(world, "sample") = Obj(before, "sample")
             /\ Obj(world, "rng") = Obj(before, "rng")
        /\ Raised("post_processors") =>
             world.self.time = FAdd(before.self.time, before.self.dt)
        /\ (~lastCall.ok /\ ~Raised("post_processors")) =>
             world.self.time = before.self.time

\* a post-processor raised in a step, after the first post-processor was called
C7_Witness ==
    /\ lastCall.op = "step" /\ ~lastCall.ok
    /\ Raised("post_processors")
    /\ Obj(world, "post_processors")[2].calls = Obj(world, "post_processors")[2].fail_at
    /\ world.self.time # before.self.time

\* C8: without a backup reset() fails and leaves every field unchanged; so
\* does the reset of run(reset=true), after the steps of the run were made.
C8_ResetWithoutBackupFails ==
    ~before.self.backup =>
        /\ lastCall.op = "reset" => ~lastCall.ok /\ world = before
        /\ (lastCall.op = "run" /\ lastCall.with_reset /\ StepsCompleted) =>
             /\ ~lastCall.ok
             /\ lastCall.steps = before.self.num_measurements
             /\ world = run(before, FALSE).w

\* run(reset=true) without a backup failed in its reset after two steps
C8_Witness ==
    /\ ~before.self.backup
    /\ lastCall.op = "run" /\ lastCall.with_reset /\ ~lastCall.ok
    /\ lastCall.failure = "reset" /\ lastCall.steps = 2
    /\ world.self.time # before.self.time

---------------------------------------------------------------------------
(* Claims about the Fluorophores of a Simulator's sample, checked under    *)
(* Spec on the step() calls that reach the sample.                         *)

\* the last call was a step() that asked the sample for its response
SampleResponded ==
    /\ lastCall.op = "step"
    /\ \E i \in DOMAIN lastCall.log : lastCall.log[i].what = "sample"

\* what the sample computed in that step: the sample of the world before the
\* call, at the clock reading and with the dt of that world
LastSampleResponse ==
    SampleResponse(Obj(before, "sample"), SampleRng(before), before.self.time,
                   before.self.dt, Obj(before, "source"))

\* C13: in every step of a Simulator, whatever its initial time, every event
\* a Fluorophore receives from its state machine has a time strictly after
\* the step's time and strictly before time + dt.
C13_EventsInsideStep ==
    SampleResponded =>
        LET time == before.self.time
            dt == before.self.dt
            computed == LastSampleResponse.computed
        IN  \A i \in DOMAIN computed :
              \A j \in DOMAIN computed[i].state_changes :
                  /\ time < computed[i].state_changes[j].time
                  /\ computed[i].state_changes[j].time < FAdd(time, dt)

\* C14: the photons of a Fluorophore's response are on_fraction * R(I) * dt
\* rounded to the nearest integer and clamped to >= 0, for every dt > 0; R is
\* the photon rate per unit of time and dt is in ticks.
C14_PhotonsScaleWithDt ==
    SampleResponded =>
        LET dt == before.self.dt
            r == LastSampleResponse
        IN  \A i \in DOMAIN r.computed :
              LET on_fraction == r.computed[i].on_fraction
                  rate == compute_photon_rate(r.computed[i].irradiance)
                  photons == RoundDiv(on_fraction.num * rate * dt,
                                      on_fraction.den * TicksPerUnit)
              IN  r.responses[i].photons = IF photons < 0 THEN 0 ELSE photons

RECURSIVE TimeInState(_, _, _, _, _)
\* the total length of the parts of [from, to] spent in state, for a
\* fluorophore that is in state current at from and then goes through the
\* state changes i, i + 1, ...
TimeInState(state, current, from, to, changes) ==
    IF changes = << >>
    THEN IF current = state THEN to - from ELSE 0
    ELSE (IF current = state THEN Head(changes).time - from ELSE 0)
         + TimeInState(state, Head(changes).to_state, Head(changes).time, to,
                       Tail(changes))

\* C15: compute_on_fraction(time, dt, events) is the proportion of
\* [time, time + dt] spent in fluorescence_state, a value in [0, 1]: with
\* events, the summed length of the sub-intervals in that state divided by
\* dt, for every start time.
C15_OnFractionIsProportion ==
    SampleResponded =>
        LET time == before.self.time
            dt == before.self.dt
            r == LastSampleResponse
        IN  \A i \in DOMAIN r.computed :
              LET f == r.sample.emitters[i]
                  changes == r.computed[i].state_changes
                  on_fraction == r.computed[i].on_fraction
                  first == IF changes = << >> THEN f.state_machine.current_state
                           ELSE Head(changes).from_state
                  on == TimeInState(f.fluorescence_state, first, time, time + dt,
                                    changes)
              IN  /\ on_fraction.num * dt = on * on_fraction.den
                  /\ 0 <= on_fraction.num
                  /\ on_fraction.num <= on_fraction.den

---------------------------------------------------------------------------
(* Claims about SimpleMicroscope.response, checked under SpecOptics *)

RECURSIVE TotalPhotons(_)
\* the photons of the emitter responses, summed
TotalPhotons(sample_response) ==
    IF sample_response = << >> THEN 0
    ELSE Head(sample_response).photons + TotalPhotons(Tail(sample_response))

\* C16: for every valid pair of limits, also with a lower bound other than 0,
\* response succeeds and returns an image of shape (y1 - y0, x1 - x0).
C16_ShapeIsWindow ==
    scopeOut.called =>
        /\ scopeOut.ok
        /\ scopeOut.shape = <<scope.y_lim[2] - scope.y_lim[1],
                              scope.x_lim[2] - scope.x_lim[1]>>

\* C17: the image response returns has only non-negative integer pixels, and
\* their total is at most the summed photons of the emitter responses.
C17_TotalAtMostEmitted ==
    (scopeOut.called /\ scopeOut.ok) =>
        /\ \A p \in DOMAIN scopeOut.image : scopeOut.image[p] \in Nat
        /\ ImageSum(scopeOut.image, DOMAIN scopeOut.image)
               <= TotalPhotons(scope.sample_response)

\* C18: the image of each emitter after the photon-conserving rounding sums
\* to round(n_e), n_e = photons * rho_e, also when n_e is not an integer or
\* exceeds the number of pixels; at a tie either neighbour counts as
\* round(n_e).
C18_RoundingConservesPhotons ==
    scopeOut.called =>
        \A i \in DOMAIN scope.sample_response :
            LET emitter == scope.sample_response[i]
                den == PSFDen(scope.optics.psf)
                n_e == emitted_and_clipped_photons(scope.optics, scope.x_lim,
                                                   scope.y_lim, emitter)
                binned == binned_photons(scope.optics, scope.x_lim, scope.y_lim,
                                         emitter)
            IN  2 * Abs(den * ImageSum(binned, DOMAIN binned) - n_e) <= den

\* C19: for a single emitter whose PSF lies wholly inside the image
\* (rho_e = 1) the image sums to the emitter's photons, for every integer
\* photon count.
C19_SingleEmitterConserved ==
    (/\ scopeOut.called /\ scopeOut.ok
     /\ Len(scope.sample_response) = 1
     /\ emitted_and_clipped_photons(scope.optics, scope.x_lim, scope.y_lim,
                                    scope.sample_response[1])
            = scope.sample_response[1].photons * PSFDen(scope.optics.psf))
        => ImageSum(scopeOut.image, DOMAIN scopeOut.image)
               = scope.sample_response[1].photons

\* C29: when the deficit k = total - sum(round(d)) of safe_round is not 0,
\* the pixels that receive sign(k) are those with the largest rounding
\* residuals in the direction of the correction: for k > 0 every incremented
\* pixel has a residual d - round(d) at least that of every pixel that is not
\* incremented, for k < 0 every decremented pixel has a residual at most that
\* of every pixel that is not decremented; no pixel changes by more than 1.
C29_LargestResidualsAdjusted ==
    scopeOut.called =>
        \A i \in DOMAIN scope.sample_response :
            LET emitter == scope.sample_response[i]
                den == PSFDen(scope.optics.psf) * PSFDen(scope.optics.psf)
                clipped == emitted_and_clipped_photons(scope.optics, scope.x_lim,
                                                       scope.y_lim, emitter)
                d == [p \in Pixels(GridShape(scope.x_lim, scope.y_lim)) |->
                         PSFBin(scope.optics.psf, scope.x_lim[1] + p[2],
                                scope.y_lim[1] + p[1], emitter.x, emitter.y, 1, 1)
                         * clipped]
                total == clipped * PSFDen(scope.optics.psf)
                round == [p \in DOMAIN d |-> RoundDiv(d[p], den)]
                k == total - den * ImageSum(round, DOMAIN d)
                residual == [p \in DOMAIN d |-> d[p] - den * round[p]]
                adjusted == safe_round(d, total, den)
                changed == {p \in DOMAIN d : adjusted[p] # round[p]}
            IN  /\ \A p \in DOMAIN d : Abs(adjusted[p] - round[p]) <= 1
                /\ k > 0 => \A p \in changed : \A q \in DOMAIN d \ changed :
                               /\ adjusted[p] = round[p] + 1
                               /\ residual[p] >= residual[q]
                /\ k < 0 => \A p \in changed : \A q \in DOMAIN d \ changed :
                               /\ adjusted[p] = round[p] - 1
                               /\ residual[p] <= residual[q]

---------------------------------------------------------------------------
(* Claims about SimpleCMOSCamera.response, checked under SpecDetector *)

\* C20: every pixel of the image response returns lies in
\* [0, 2^bits - 1]; a value below 0 is clamped to 0 and does not wrap;
\* saturation is never an error.
C20_PixelsInRange ==
    (cameraOut.called /\ cameraOut.ok) =>
        \A p \in DOMAIN cameraOut.image :
            /\ 0 <= cameraOut.image[p]
            /\ cameraOut.image[p] <= Pow2(camera.detector.bit_depth) - 1
            /\ cameraOut.adu[p] < 0 => cameraOut.image[p] = 0

\* C21: response raises when it is given an image whose shape is not
\* num_pixels or that has a negative pixel, and then draws nothing from the
\* Generator it was handed, whose state is unchanged; with photons = None it
\* returns an image of shape num_pixels.
C21_RejectsBadImages ==
    cameraOut.called =>
        LET photons == camera.photons
            bad == /\ photons # None
                   /\ \/ photons.shape # camera.detector.num_pixels
                      \/ \E p \in DOMAIN photons.image : photons.image[p] < 0
        IN  /\ bad => /\ ~cameraOut.ok
                      /\ cameraOut.draws = << >>
                      /\ camera.rng = cameraOut.rng_before
            /\ photons = None => /\ cameraOut.ok
                                 /\ cameraOut.shape = camera.detector.num_pixels
                                 /\ DOMAIN cameraOut.image
                                        = Pixels(camera.detector.num_pixels)

\* a call with an image of another shape raised after a call that drew
C21_Witness ==
    /\ cameraOut.called /\ ~cameraOut.ok
    /\ camera.photons # None
    /\ camera.photons.shape # camera.detector.num_pixels
    /\ camera.draws # << >>
    /\ camera.rng = cameraOut.rng_before

RECURSIVE ExpectedDraws(_)
\* Poisson then Normal for every call that returned with an image, Normal
\* alone for every call that returned without one
ExpectedDraws(calls) ==
    IF calls = << >> THEN << >>
    ELSE (IF Head(calls) = "image" THEN <<"poisson", "normal">>
          ELSE IF Head(calls) = "none" THEN <<"normal">>
          ELSE << >>) \o ExpectedDraws(Tail(calls))

\* C22: a response that returns makes one Poisson draw over the whole array
\* and then one Normal draw over the whole array when it has an image, and
\* only the Normal draw when photons is None, all on the Generator it was
\* handed; over a sequence of calls the draws are Poisson, Normal, Poisson,
\* Normal, ..., once per call.
C22_PoissonThenNormal ==
    /\ camera.draws = ExpectedDraws(camera.calls)
    /\ (cameraOut.called /\ cameraOut.ok) =>
          LET poisson == IF camera.photons = None THEN 0
                         ELSE Cardinality({p \in DOMAIN camera.photons.image :
                                             camera.detector.quantum_efficiency
                                             * camera.photons.image[p] # 0})
          IN  camera.rng = RngSkip(cameraOut.rng_before,
                                   poisson + Cardinality(DOMAIN cameraOut.image))

\* two calls with images returned one after the other
C22_Witness ==
    /\ camera.calls = <<"image", "image">>
    /\ camera.draws = <<"poisson", "normal", "poisson", "normal">>

---------------------------------------------------------------------------
(* Claims about UniformMono2D, checked under SpecSource *)

\* C23: 0 <= power <= power_max in every state that construction and any
\* sequence of assignments to power reach; an assignment of a power outside
\* the range raises and leaves power as it was; construction with such a power
\* raises; POWER_MAX cannot be assigned.
C23_PowerInRange ==
    /\ laser.constructed =>
          /\ LessEq(0, laser.source.power)
          /\ LessEq(laser.source.power, laser.source.power_max)
    /\ (laser.last.attribute \in {"power", "__init__"}
          /\ ~(LessEq(0, laser.last.value) /\ LessEq(laser.last.value, laser.last.limit))) =>
          /\ laser.last.raised = "ValueError"
          /\ laser.source = laser.last.before
    /\ laser.last.attribute = "POWER_MAX" =>
          /\ laser.last.raised = "AttributeError"
          /\ laser.source = laser.last.before

---------------------------------------------------------------------------
(* Claims about bleaching, checked under Spec *)

\* the fluorophores of the Simulator's sample in world w
Fluorophores(w) == Obj(w, "sample").emitters

\* C30: in a sample of three-state fluorophores (0 = ON, 1 = OFF,
\* 2 = BLEACHED, fluorescence_state 0) bleaching is permanent: once the
\* StateMachine of a fluorophore is in state 2, every later response of the
\* fluorophore, in every later step and for every irradiance, returns 0
\* photons and leaves it in state 2; the OFF state 1 is not a stopped state.
C30_BleachingIsPermanent ==
    /\ \A i \in DOMAIN Fluorophores(world) :
          LET f == Fluorophores(world)[i]
              m == f.state_machine
          IN  /\ 1 \notin stopped_states(m.rate_constants, m.rate_coefficients)
              /\ m.current_state = 2 =>
                    \A power \in 0 .. 4 :
                      LET r == FluorophoreResponse(f, SampleRng(world), world.self.time,
                                                   world.self.dt,
                                                   UniformMono2D(4, power, <<0, 1>>, <<0, 1>>))
                      IN  /\ r.response.photons = 0
                          /\ r.emitter.state_machine.current_state = 2
    /\ SampleResponded =>
          \A i \in DOMAIN Fluorophores(before) :
              Fluorophores(before)[i].state_machine.current_state = 2 =>
                  /\ LastSampleResponse.responses[i].photons = 0
                  /\ LastSampleResponse.sample.emitters[i].state_machine.current_state = 2

\* a step under a switched-on source asked a fluorophore that had bleached in
\* an earlier step for its response
C30_Witness ==
    /\ SampleResponded
    /\ Obj(before, "source").power > 0
    /\ \E i \in DOMAIN Fluorophores(before) :
          /\ Fluorophores(before)[i].state_machine.current_state = 2
          /\ Fluorophores(before)[i].state_machine.stopped
          /\ LastSampleResponse.responses[i].photons = 0

---------------------------------------------------------------------------
(* Claims about compute_rates_cached, checked under SpecRates *)

RECURSIVE SumOver(_, _)
\* the sum of term[x] over the x in S
SumOver(term, S) ==
    IF S = {} THEN 0
    ELSE LET x == CHOOSE y \in S : TRUE
         IN  term[x] + SumOver(term, S \ {x})

\* C27: for every p of length L, N x N rate_constants and L x M x N x N
\* rate_coefficients the rate matrix is Q(p)[i][j] = rate_constants[i][j] +
\* the sum over l in 0..L-1 and m in 1..M of p[l]^m *
\* rate_coefficients[l][m-1][i][j]; with empty rate_coefficients it is
\* rate_constants; the memoized function returns this matrix whatever calls
\* came before.
C27_RatesArePowerSeries ==
    (memo.called /\ (Card(memo.arguments[3]) = 0
                       \/ Card(memo.arguments[1]) = Card(memo.arguments[3]))) =>
        LET p == memo.arguments[1]
            rate_constants == memo.arguments[2]
            rate_coefficients == memo.arguments[3]
            L == Card(rate_coefficients)
            M == IF L = 0 THEN 0 ELSE Card(rate_coefficients[0])
            Orders == (0 .. L - 1) \X (1 .. M)
        IN  /\ ~memo.raised
            /\ DOMAIN memo.result = DOMAIN rate_constants
            /\ \A i \in DOMAIN rate_constants :
                  /\ DOMAIN memo.result[i] = DOMAIN rate_constants[i]
                  /\ \A j \in DOMAIN rate_constants[i] :
                        memo.result[i][j]
                          = rate_constants[i][j]
                            + SumOver([lm \in Orders |->
                                          Power(p[lm[1]], lm[2])
                                          * rate_coefficients[lm[1]][lm[2] - 1][i][j]],
                                      Orders)
            /\ L = 0 => memo.result = rate_constants

\* the call was answered from the cache, which holds another entry with the
\* same control parameters, for a second-order machine at p = 2
C27_Witness ==
    /\ memo.called /\ memo.hit /\ ~memo.raised
    /\ Len(memo.cache) >= 2
    /\ memo.cache[2].key[1] = memo.arguments[1]
    /\ memo.cache[2].key # memo.cache[1].key
    /\ memo.arguments[1] = Vector(<<2>>)
    /\ Card(memo.arguments[3]) = 1 /\ Card(memo.arguments[3][0]) = 2

---------------------------------------------------------------------------
(* Claims about Emitters.response with an executor, checked under SpecPool *)

\* C24: Emitters.response returns one EmitterResponse per stored emitter and
\* result[i] is the one emitters[i] produced, whatever the order in which the
\* tasks of the executor ended; when every emitter owns its StateMachine and
\* its Generator the list equals the one _response_serial returns.
C24_MapKeepsOrder ==
    pool.gathered =>
        /\ Len(pool.result) = Len(pool.emitters)
        /\ \A i \in DOMAIN pool.emitters :
              /\ pool.result[i].x = pool.emitters[i].x
              /\ pool.result[i].y = pool.emitters[i].y
        /\ (\A i \in DOMAIN pool.emitters : ~pool.emitters[i].rng.shared) =>
              pool.result = pool.serial

\* the second task ended first, the emitters own their Generators and the
\* two responses differ
C24_Witness ==
    /\ pool.gathered
    /\ pool.order = <<2, 1>>
    /\ \A i \in DOMAIN pool.emitters : ~pool.emitters[i].rng.shared
    /\ pool.result[1].photons # pool.result[2].photons

\* C25: no two emitters that an executor evaluates at the same time draw from
\* one Generator, and none draws from the Generator of the Simulator: every
\* emitter of a sample built by three_state_fluorophores, with an rng
\* argument or without, has a Generator of its own.
C25_OwnGenerators ==
    \A i \in DOMAIN pool.tasks :
        pool.tasks[i].pc # "done" =>
            \* not the Generator of the Simulator
            /\ ~pool.emitters[i].rng.shared
            \* not the Generator of another task in flight
            /\ \A j \in DOMAIN pool.tasks \ {i} :
                  pool.tasks[j].pc # "done" =>
                      ~(pool.emitters[i].rng.shared /\ pool.emitters[j].rng.shared)

---------------------------------------------------------------------------
(* Claims about the collect calls of a StateMachine, checked under SpecCalls *)

\* C11: a collect call on a machine that is not stopped whose vector p differs
\* from the vector of the previous call (of construction, for the first call)
\* recomputes the pending event at offset time before it collects, without
\* changing current_state; a call with the previous call's p keeps the pending
\* event; after the call the machine remembers the p of the call.
C11_UpdateFollowsLastSeen ==
    (smCalls >= 1 /\ ~smCall.before.stopped) =>
        LET m == smCall.before
            p == smCall.control_params
            updated == IF p = smCall.last_p
                       THEN [sm |-> m, rng |-> smCall.rng]
                       ELSE set_next_event(
                                _compute_next_event(m, smCall.rng, p, smCall.time))
            c == collect_loop(updated.sm, updated.rng, p,
                              FAdd(smCall.time, smCall.dt), << >>)
        IN  /\ updated.sm.current_state = m.current_state
            /\ smEvents = c.events
            /\ smRng = c.rng
            /\ sm.next_event = c.sm.next_event
            /\ sm.current_state = c.sm.current_state
            /\ sm.control_params = p

\* C12: every event returned by collect(p, time, dt) has a time before
\* time + dt, and when the machine is not stopped after the call its pending
\* event is at or after time + dt.
C12_EventsBeforeEnd ==
    smCalls >= 1 =>
        LET end == FAdd(smCall.time, smCall.dt)
        IN  /\ \A i \in 1 .. Len(smEvents) : smEvents[i].time < end
            /\ ~sm.stopped => sm.next_event.time >= end

\* a call returned two events and left a pending event that is finite
C12_Witness ==
    /\ smCalls >= 1 /\ Len(smEvents) >= 2
    /\ ~sm.stopped /\ sm.next_event.time # Inf
    /\ sm.next_event.time >= FAdd(smCall.time, smCall.dt)

\* C26: the events one collect call returns are in chronological order and
\* form a chain: their times do not decrease, the first leaves the state the
\* machine was in before the call, each leads to the state the next one
\* leaves, and after the call current_state is the state the last one leads to
\* (unchanged when there is none); current_state is one of the N states.
C26_EventsAreChained ==
    /\ sm.current_state \in DOMAIN sm.rate_constants
    /\ smCalls >= 1 =>
          /\ \A i \in 1 .. Len(smEvents) - 1 :
                /\ smEvents[i].time <= smEvents[i + 1].time
                /\ smEvents[i].to_state = smEvents[i + 1].from_state
          /\ \A i \in 1 .. Len(smEvents) :
                /\ smEvents[i].from_state \in DOMAIN sm.rate_constants
                /\ smEvents[i].to_state \in DOMAIN sm.rate_constants
          /\ smEvents # << >> =>
                /\ smEvents[1].from_state = smCall.before.current_state
                /\ sm.current_state = smEvents[Len(smEvents)].to_state
          /\ smEvents = << >> => sm.current_state = smCall.before.current_state

\* a call returned three events at two different times and changed the state
C26_Witness ==
    /\ smCalls >= 1 /\ Len(smEvents) >= 3
    /\ smEvents[1].time < smEvents[Len(smEvents)].time
    /\ sm.current_state # smCall.before.current_state

\* C28: from a state s that is not a stopped state, with r = Q(p)[s, :], the
\* next event takes one exponential draw per target, with scale 1/r[t] where
\* r[t] > 0 and the time +infinity where r[t] = 0, and is (least draw +
\* t_offset, s, lowest index of a least draw).  Hence no event that collect
\* returns moves along a transition whose rate at the p of the call is 0, and
\* when every rate out of s is 0 at p the pending event is at +infinity and is
\* never collected.
C28_NoEventAtRateZero ==
    /\ \A control_params \in ControlParams(sm.rate_coefficients) :
          \A t_offset \in CollectTimes :
            sm.current_state \notin stopped_states(sm.rate_constants, sm.rate_coefficients) =>
              LET r == compute_rates(control_params, sm.rate_constants,
                                     sm.rate_coefficients)[sm.current_state]
                  draws == [t \in DOMAIN r |->
                              IF r[t] = 0 THEN Inf
                              ELSE (TicksPerUnit \div r[t]) * StdExponential(RngSkip(smRng, t))]
                  least == CHOOSE t \in DOMAIN r : \A u \in DOMAIN r : draws[t] <= draws[u]
                  first == CHOOSE t \in DOMAIN r :
                              draws[t] = draws[least] /\ \A u \in 0 .. t - 1 : draws[u] > draws[least]
                  c == _compute_next_event(sm, smRng, control_params, t_offset)
              IN  /\ c.event = Event(FAdd(draws[least], t_offset), sm.current_state, first)
                  /\ c.rng = RngSkip(smRng, Card(r))
    /\ smCalls >= 1 =>
          LET Q == compute_rates(smCall.control_params, sm.rate_constants,
                                 sm.rate_coefficients)
          IN  /\ \A i \in 1 .. Len(smEvents) :
                    Q[smEvents[i].from_state][smEvents[i].to_state] > 0
              /\ (\A t \in DOMAIN Q : Q[smCall.before.current_state][t] = 0) =>
                    smEvents = << >>

---------------------------------------------------------------------------
(* Claims about the StateMachine, checked under SpecSM *)

\* state x of machine m has an all-zero outgoing row in rate_constants and in
\* every rate_coefficients[l, m] slice
ZeroRow(m, x) ==
    /\ \A j \in DOMAIN m.rate_constants[x] : m.rate_constants[x][j] = 0
    /\ \A l \in DOMAIN m.rate_coefficients :
         \A k \in DOMAIN m.rate_coefficients[l] :
           \A j \in DOMAIN m.rate_coefficients[l][k][x] :
             m.rate_coefficients[l][k][x][j] = 0

\* C9: in every state reached by construction followed by collect calls, a
\* machine whose current state has an all-zero outgoing row in both tensors is
\* stopped, and collect returns the empty list for every p, time and dt and
\* leaves it stopped.
C9_ZeroRowIsStopped ==
    ZeroRow(sm, sm.current_state) =>
        /\ sm.stopped
        /\ \A control_params \in ControlParams(sm.rate_coefficients) :
             \A time \in CollectTimes :
               \A dt \in CollectDts :
                 LET c == collect(sm, smRng, control_params, time, dt)
                 IN  c.events = << >> /\ c.sm.stopped

\* a collect call has been made on a machine whose current state has an
\* all-zero row, and it returned nothing
C9_Witness ==
    /\ smCalls >= 1
    /\ ZeroRow(sm, sm.current_state)
    /\ sm.stopped
    /\ smEvents = << >>

\* C10: stopped is terminal.  The event of a collect call that enters a state
\* with an all-zero row is the last event of the call, and the call leaves the
\* machine stopped with a pending event at time +infinity; a stopped machine
\* stays stopped, keeps its current state and returns the empty list from
\* every later collect call.
C10_StoppedIsTerminal ==
    [][ /\ \A i \in 1 .. Len(smEvents') :
             ZeroRow(sm', smEvents'[i].to_state) =>
                 /\ i = Len(smEvents')
                 /\ sm'.current_state = smEvents'[i].to_state
                 /\ sm'.stopped
                 /\ sm'.next_event.time = Inf
        /\ sm.stopped =>
             /\ sm'.stopped
             /\ sm'.current_state = sm.current_state
             /\ sm'.next_event.time = Inf
             /\ smEvents' = << >> ]_vars

\* a collect call collected several events, the last of which stopped the machine
C10_Witness ==
    /\ Len(smEvents) >= 2
    /\ ZeroRow(sm, smEvents[Len(smEvents)].to_state)
    /\ sm.stopped

=============================================================================
